---- MODULE Spec2Model ----
(***************************************************************************)
(* RoutePilot routing and supervision core.                                *)
(*                                                                         *)
(*   Spec       runWithFallback (router.ts, newest revision): the ladder,  *)
(*              the per-attempt timers, the gateway call, the stream       *)
(*              handler, the failure classification and the backoff.       *)
(*   SpecP95    the trace table and p95LatencyFor.                         *)
(*   SpecLadder fastestByRecentP95 and the ladder construction of          *)
(*              runWithFallback.                                           *)
(*   SpecRpm    the quota enforcer: assertWithinRpm.                       *)
(*   SpecDaily  the quota enforcer: addDailyTokens, resetDailyTokens.      *)
(*   SpecRace   concurrent callers of assertWithinRpm.                     *)
(*   SpecReceipts  writeReceipt: redaction, signature, stored row.         *)
(*   SpecInfer  infer: rpm gate, routing, receipt, daily tokens, trace,    *)
(*              shadow run.                                                *)
(*   SpecChain  the helpdesk chains, runFanOut and the agent turns.        *)
(*   SpecJson   safeLastJson on a captured text.                           *)
(*   SpecSubAgent  runSubAgent before the gateway call: validation, the    *)
(*              http_fetch tool, the dry run.                              *)
(*   SpecReduce reduceFanOut over the branch outputs.                      *)
(*   SpecParams the generation parameters runSubAgent hands to the router  *)
(*              and the request body built from them.                      *)
(*   SpecSse    streamSSEToBufferAndStdout over a chunked event stream.    *)
(*   SpecLive   Spec under the fairness the timers and the event loop      *)
(*              give.                                                      *)
(*   SpecTraces infer and the chains as writers of the trace table.        *)
(*   SpecAgent  runAgent and the session store.                            *)
(*                                                                         *)
(* Time is counted in abstract milliseconds.  A timer is kept as the time  *)
(* left until it fires; time cannot pass a timer that is due.              *)
(***************************************************************************)
EXTENDS Integers, Sequences, FiniteSets, TLC

VARIABLES
  traces,          \* table traces: rows [route_final, ts, latency_ms] in insertion order
  plan,            \* RoutePlan {primary, backups}
  targetP95,       \* objectives.p95_latency_ms
  p95WindowN,      \* routing.p95_window_n
  tries,           \* startList
  maxAttempts, fallbackOnMs, firstChunkGateMs, backoffMs,
  chaos,           \* "none" | "stall" | "5xx"  (CHAOS_PRIMARY_STALL / CHAOS_HTTP_5XX)
  envOk,           \* AI_GATEWAY_BASE_URL and AI_GATEWAY_API_KEY are set
  handlerKind,     \* "gate": default handler; "direct": streamSSEToBufferAndStdout passed in
  gatewayStatuses, \* the HTTP statuses the gateway of this run may answer
  pc,              \* where runWithFallback stands
  i,               \* loop index into tries (1-based)
  attempts, fallbackCount, routeFinal, firstTokenMs, reasons, attemptErrors,
  abortedByTimer,  \* per attempt: the closure variable abortedByTimer
  aborted,         \* per attempt: ac.signal.aborted
  firstChunkSeen,  \* per attempt
  firstDeltaMs,    \* history, per attempt: Date.now() - attemptStart at its first delta
  stallTimer,      \* per attempt: Unset | time left | Fired | Cleared
  firstChunkTimer, \* per attempt: Unset | time left | Fired | Cleared
  elapsed,         \* Date.now() - attemptStart
  sleepLeft,       \* time left of the pending sleep()
  resStatus,       \* status of the response whose body is being read
  gateLeft,        \* time left of the first-chunk gate
  gateBuf,         \* deltas held back by the gate
  deltas,          \* content deltas the current stream has delivered
  sink,            \* the consumer's sink: the attempt each forwarded delta came from
  outcomes,        \* history: per attempt made, how it ended
  slept,           \* history: the backoff slept after each failed attempt
  rpm_events,      \* table rpm_events: rows [user_ref, ts]
  quotas_daily,    \* table quotas_daily: tokens of each existing row (user_ref, day)
  per_user_rpm,    \* tenancy.per_user_rpm
  per_user_daily_tokens, \* tenancy.per_user_daily_tokens
  now,             \* Date.now() of the quota enforcer
  today,           \* dayInTZ(tz)
  admitted,        \* history: every call assertWithinRpm let through, [user_ref, ts]
  quotaCalls,      \* history: the number of quota calls made
  lastCall,        \* the last ledger or quota call and what it returned
  rpmCallers,      \* concurrent callers of assertWithinRpm: [user, pc, ts, c, error] each
  receipts,        \* table receipts: rows in insertion order
  env,             \* process.env: JWT_SECRET, ROUTEPILOT_REDACT, ROUTEPILOT_REDACT_FIELDS
  inferRun,        \* one call of infer: [pc, user, usageProbe, prompt, completion, rid, error]
  chainRun,        \* one run of a helpdesk chain and its hops, and the agent turns made
  jsonText,        \* the captured text handed to safeLastJson
  jsonResult,      \* what safeLastJson did with it
  agentRun,        \* one direct call of runSubAgent: envelope, position, calls made
  sseRun,          \* one call of a stream demultiplexer: body, buffer, sink, callback
  sessions,        \* table sessions: the ids of the rows
  messages,        \* table messages: rows [session_id, role, turn] in insertion order
  turnRun          \* the calls of runAgent: the one running, and how many were made

routerIn == <<plan, targetP95, p95WindowN, tries, maxAttempts, fallbackOnMs,
              firstChunkGateMs, backoffMs, chaos, envOk, handlerKind, gatewayStatuses>>
routerSt == <<pc, i, attempts, fallbackCount, routeFinal, firstTokenMs, reasons,
              attemptErrors, abortedByTimer, aborted, firstChunkSeen, stallTimer,
              firstChunkTimer, elapsed, sleepLeft, resStatus, gateLeft, gateBuf,
              deltas, sink, firstDeltaMs, outcomes, slept>>
quotaSt  == <<rpm_events, quotas_daily, per_user_rpm, per_user_daily_tokens, now, today,
              admitted, quotaCalls>>
raceSt   == <<rpmCallers>>
receiptSt == <<receipts, env>>
inferSt  == <<inferRun>>
chainSt  == <<chainRun>>
jsonSt   == <<jsonText, jsonResult, sseRun>>      \* the helpers of util/
agentSt  == <<agentRun, sessions, messages, turnRun>>
extSt    == <<raceSt, receiptSt, inferSt, chainSt, jsonSt, agentSt>>
vars     == <<traces, routerIn, routerSt, quotaSt, lastCall, extSt>>

----------------------------------------------------------------------------
(* Bounds and input domains *)

MaxElapsed == 4      \* cap of the per-attempt clock
MaxDeltas  == 2      \* content deltas per stream

Models   == {"A", "B", "C"}
Null     == 0 - 1    \* null / undefined where a number is expected
NoModel  == ""       \* null where a model name is expected; routeFinal before success
Unset    == 0 - 2    \* a timer that was never set
Fired    == 0 - 3    \* a timer whose callback has run
Cleared  == 0 - 4    \* a timer removed by clearTimeout
ChaosExtraMs == 50   \* the chaos stall sleeps fallbackOnMs + 50

Min(a, b) == IF a <= b THEN a ELSE b

RECURSIVE without(_, _)
\* s.filter((b) => b !== x)
without(s, x) ==
  IF s = <<>> THEN <<>>
  ELSE IF Head(s) # x THEN <<Head(s)>> \o without(Tail(s), x)
       ELSE without(Tail(s), x)

----------------------------------------------------------------------------
(* Ledger: traces and the p95 query (db.ts) *)

\* ORDER BY ts DESC over the rows with the given rowids (equal ts: lower rowid first):
\* the k-th row is the one with k-1 rows before it
orderByTsDesc(idx) ==
  LET before(a, b) == \/ traces[a].ts > traces[b].ts
                      \/ traces[a].ts = traces[b].ts /\ a < b
  IN  [k \in 1..Cardinality(idx) |->
         traces[CHOOSE a \in idx : Cardinality({b \in idx : before(b, a)}) = k - 1]]

\* SELECT ... FROM traces WHERE route_final=? ORDER BY ts DESC LIMIT ?
RecentRows(model, n) ==
  LET all == orderByTsDesc({k \in 1..Len(traces) : traces[k].route_final = model})
  IN  SubSeq(all, 1, Min(n, Len(all)))

\* p95LatencyFor with Math.ceil for Math.floor
p95LatencyForCeil(model, n) ==
  LET rows == RecentRows(model, n)
      arr  == SortSeq([k \in 1..Len(rows) |-> rows[k].latency_ms],
                      LAMBDA a, b : a < b)
  IN  IF Len(rows) = 0 THEN Null
      ELSE arr[((95 * (Len(arr) - 1) + 99) \div 100) + 1]

p95LatencyFor(model, n) ==
  LET rows == RecentRows(model, n)
      arr  == SortSeq([k \in 1..Len(rows) |-> rows[k].latency_ms],
                      LAMBDA a, b : a < b)
  IN  IF Len(rows) = 0 THEN Null
      ELSE arr[((95 * (Len(arr) - 1)) \div 100) + 1]

\* SELECT COUNT(*) over the same LIMITed selection
recentSampleCount(model, n) == Len(RecentRows(model, n))

NoBest == [m |-> NoModel, p95 |-> Null]

RECURSIVE fastestFrom(_, _, _)
\* the loop of fastestByRecentP95: best so far, remaining models
fastestFrom(best, models, n) ==
  IF models = <<>> THEN best
  ELSE LET m   == Head(models)
           p95 == p95LatencyFor(m, n)
       IN  IF p95 = Null THEN fastestFrom(best, Tail(models), n)
           ELSE IF best = NoBest \/ p95 < best.p95
                THEN fastestFrom([m |-> m, p95 |-> p95], Tail(models), n)
                ELSE fastestFrom(best, Tail(models), n)

fastestByRecentP95(models, n) == fastestFrom(NoBest, models, n).m

\* startList with the sample threshold one too low
startListFromNineSamples(pl, target, n) ==
  LET primaryModel  == pl.primary[1]
      recentP95     == p95LatencyFor(primaryModel, n)
      sampleCount   == recentSampleCount(primaryModel, n)
      fastestBackup == fastestByRecentP95(pl.backups, n)
  IN  IF recentP95 # Null /\ sampleCount >= 9 /\ recentP95 > target
         /\ fastestBackup # NoModel
      THEN <<fastestBackup>> \o pl.primary
             \o without(pl.backups, fastestBackup)
      ELSE pl.primary \o pl.backups

\* runWithFallback, lines 28-35
startList(pl, target, n) ==
  LET primaryModel  == pl.primary[1]
      recentP95     == p95LatencyFor(primaryModel, n)
      sampleCount   == recentSampleCount(primaryModel, n)
      fastestBackup == fastestByRecentP95(pl.backups, n)
  IN  IF recentP95 # Null /\ sampleCount >= 10 /\ recentP95 > target
         /\ fastestBackup # NoModel
      THEN <<fastestBackup>> \o pl.primary
             \o without(pl.backups, fastestBackup)
      ELSE pl.primary \o pl.backups

----------------------------------------------------------------------------
(* Router / supervisor: runWithFallback (router.ts) *)

Statuses       == {200, 429, 503, 404}       \* what a gateway may answer
ok(status)     == status >= 200 /\ status <= 299
AbortMessage   == "This operation was aborted"
ChaosStallMsg  == "AbortError: chaos stall"
AbortLike      == {AbortMessage, ChaosStallMsg}   \* messages /aborted|AbortError/i matches
NetworkMsgs    == {"fetch failed"}                \* fetch rejects
StreamMsgs     == {"terminated"}                  \* the body read rejects
ConfigMsg      == "Missing env"

HttpMessage(status) == "HTTP " \o ToString(status)

\* new GatewayError(message, status, body): carries a numeric status
GatewayError(status) == [message |-> HttpMessage(status), status |-> status]
\* any other Error: e.status is undefined
PlainError(message)  == [message |-> message, status |-> Null]

\* lines 118-126: the reason pushed for error e
reasonFor(e, byTimer) ==
  IF e.status # Null
  THEN IF e.status = 429 THEN "rate_limit"
       ELSE IF e.status >= 500 THEN "5xx"
       ELSE "http_" \o ToString(e.status)
  ELSE IF byTimer \/ e.message \in AbortLike THEN "stall"
  ELSE "error"

\* line 140: backoffMs[Math.min(fallbackCount - 1, backoffMs.length - 1)] ?? 100
DefaultBackoffMs == 100

\* backoffFor without the Math.min: past the end of the ladder the default is slept
backoffForNoRepeat(fc) ==
  IF fc > Len(backoffMs) THEN DefaultBackoffMs ELSE backoffMs[fc]

backoffFor(fc) ==
  IF Len(backoffMs) = 0 THEN DefaultBackoffMs
  ELSE backoffMs[Min(fc - 1, Len(backoffMs) - 1) + 1]

Positions == 1..Len(tries)
armed(t)  == t >= 0
InAttempt == pc \in {"fetch", "errbody", "stream", "chaosSleep"}

streamVars == <<gateLeft, gateBuf, deltas, sink, firstChunkSeen, firstTokenMs, firstDeltaMs>>
timerVars  == <<abortedByTimer, aborted, stallTimer, firstChunkTimer>>
catchVars  == <<fallbackCount, attemptErrors, reasons, outcomes, slept, sleepLeft>>

\* runWithFallback writes nothing but its own state
RouterFrame == UNCHANGED <<extSt, traces, routerIn, quotaSt, lastCall>>

\* Catch with line 116 keeping only the last error
CatchKeepsLastError(e, byTimer) ==
  /\ fallbackCount' = fallbackCount + 1
  /\ attemptErrors' = <<[model |-> tries[i], message |-> e.message, status |-> e.status]>>
  /\ reasons' = Append(reasons, reasonFor(e, byTimer))
  /\ outcomes' = Append(outcomes,
                   [pos |-> i, model |-> tries[i], failed |-> TRUE, status |-> e.status,
                    message |-> e.message, byTimer |-> byTimer,
                    forwarded |-> Len(SelectSeq(sink, LAMBDA a : a = i)),
                    firstDeltaAt |-> firstDeltaMs[i]])
  /\ slept' = Append(slept, backoffFor(fallbackCount + 1))
  /\ sleepLeft' = backoffFor(fallbackCount + 1)
  /\ pc' = "backoff"

\* the catch block, lines 112-143, up to the await of sleep(backoff)
Catch(e, byTimer) ==
  /\ fallbackCount' = fallbackCount + 1
  /\ attemptErrors' = Append(attemptErrors,
                        [model |-> tries[i], message |-> e.message, status |-> e.status])
  /\ reasons' = Append(reasons, reasonFor(e, byTimer))
  /\ outcomes' = Append(outcomes,
                   [pos |-> i, model |-> tries[i], failed |-> TRUE, status |-> e.status,
                    message |-> e.message, byTimer |-> byTimer,
                    forwarded |-> Len(SelectSeq(sink, LAMBDA a : a = i)),
                    firstDeltaAt |-> firstDeltaMs[i]])
  /\ slept' = Append(slept, backoffFor(fallbackCount + 1))
  /\ sleepLeft' = backoffFor(fallbackCount + 1)
  /\ pc' = "backoff"

\* lines 49-78: the loop head and the attempt up to the await of callGateway
StartAttempt ==
  /\ RouterFrame
  /\ pc = "loop" /\ i <= Len(tries) /\ attempts < maxAttempts
  /\ attempts' = attempts + 1
  /\ stallTimer' = [stallTimer EXCEPT ![i] = fallbackOnMs]
  /\ abortedByTimer' = [abortedByTimer EXCEPT ![i] = FALSE]
  /\ elapsed' = 0
  /\ IF chaos = "stall" /\ tries[i] = plan.primary[1]
     THEN /\ pc' = "chaosSleep"
          /\ sleepLeft' = fallbackOnMs + ChaosExtraMs
          /\ UNCHANGED <<fallbackCount, attemptErrors, reasons, outcomes, slept>>
     ELSE IF chaos = "5xx" /\ tries[i] = plan.primary[1]
     THEN Catch(GatewayError(503), FALSE)
     ELSE IF ~envOk
     THEN Catch(PlainError(ConfigMsg), FALSE)           \* requireEnv throws inside the try
     ELSE /\ pc' = "fetch"
          /\ UNCHANGED catchVars
  /\ UNCHANGED <<i, routeFinal, aborted, firstChunkTimer, resStatus, streamVars>>

\* lines 49/51 and 146-147: the loop ends without a success
Exhausted ==
  /\ RouterFrame
  /\ pc = "loop" /\ (i > Len(tries) \/ attempts >= maxAttempts)
  /\ pc' = "thrown"                               \* RouterError(..., attemptErrors)
  /\ UNCHANGED <<i, attempts, routeFinal, elapsed, resStatus, catchVars, timerVars, streamVars>>

\* line 65-66: the chaos sleep is over
ChaosStallThrows ==
  /\ RouterFrame
  /\ pc = "chaosSleep" /\ sleepLeft = 0
  /\ Catch(PlainError(ChaosStallMsg), abortedByTimer[i])
  /\ UNCHANGED <<i, attempts, routeFinal, elapsed, resStatus, timerVars, streamVars>>

\* the gate of the default handler: deltas are held back while it is closed
gateInit   == IF handlerKind = "gate" THEN firstChunkGateMs ELSE 0
gateClosed == handlerKind = "gate" /\ gateLeft > 0

\* lines 78-98: the gateway answers
GatewayResponds(status) ==
  /\ RouterFrame
  /\ pc = "fetch" /\ ~aborted[i] /\ status \in gatewayStatuses
  /\ IF ok(status)
     THEN /\ pc' = "stream"
          /\ firstChunkSeen' = [firstChunkSeen EXCEPT ![i] = FALSE]
          /\ firstChunkTimer' = [firstChunkTimer EXCEPT ![i] = fallbackOnMs]
          /\ gateLeft' = gateInit
          /\ gateBuf' = 0
          /\ deltas' = 0
          /\ UNCHANGED resStatus
     ELSE /\ pc' = "errbody"
          /\ resStatus' = status
          /\ UNCHANGED <<firstChunkSeen, firstChunkTimer, gateLeft, gateBuf, deltas>>
  /\ UNCHANGED <<i, attempts, routeFinal, firstTokenMs, firstDeltaMs, elapsed, sink,
                 catchVars, abortedByTimer, aborted, stallTimer>>

\* line 78: fetch rejects (no response)
GatewayRejects ==
  /\ RouterFrame
  /\ pc = "fetch" /\ ~aborted[i]
  /\ \E m \in NetworkMsgs : Catch(PlainError(m), abortedByTimer[i])
  /\ UNCHANGED <<i, attempts, routeFinal, elapsed, resStatus, timerVars, streamVars>>

\* line 78: the signal aborts the pending fetch
FetchAborted ==
  /\ RouterFrame
  /\ pc = "fetch" /\ aborted[i]
  /\ Catch(PlainError(AbortMessage), abortedByTimer[i])
  /\ UNCHANGED <<i, attempts, routeFinal, elapsed, resStatus, timerVars, streamVars>>

\* lines 79-83: the body of a non-ok response was read (or its read failed)
ErrorBodyRead ==
  /\ RouterFrame
  /\ pc = "errbody"
  /\ Catch(GatewayError(resStatus), abortedByTimer[i])
  /\ UNCHANGED <<i, attempts, routeFinal, elapsed, resStatus, timerVars, streamVars>>

\* the handler emits one content delta; onFirstChunk of lines 95-98
StreamDelta ==
  /\ RouterFrame
  /\ pc = "stream" /\ ~aborted[i] /\ deltas < MaxDeltas
  /\ deltas' = deltas + 1
  /\ firstChunkSeen' = [firstChunkSeen EXCEPT ![i] = TRUE]
  /\ firstTokenMs' = IF ~firstChunkSeen[i] /\ firstTokenMs = Null THEN elapsed
                     ELSE firstTokenMs
  /\ firstDeltaMs' = IF ~firstChunkSeen[i] THEN [firstDeltaMs EXCEPT ![i] = elapsed]
                     ELSE firstDeltaMs
  /\ IF gateClosed
     THEN gateBuf' = gateBuf + 1 /\ UNCHANGED sink
     ELSE sink' = Append(sink, i) /\ UNCHANGED gateBuf
  /\ UNCHANGED <<pc, i, attempts, routeFinal, elapsed, resStatus, gateLeft, catchVars,
                 timerVars>>

\* the gate time is over: what was held back goes to the sink
GateOpens ==
  /\ RouterFrame
  /\ pc = "stream" /\ ~aborted[i] /\ handlerKind = "gate"
  /\ gateLeft = 0 /\ gateBuf > 0
  /\ sink' = sink \o [k \in 1..gateBuf |-> i]
  /\ gateBuf' = 0
  /\ UNCHANGED <<pc, i, attempts, routeFinal, firstTokenMs, firstDeltaMs, elapsed,
                 resStatus, gateLeft, deltas, firstChunkSeen, catchVars, timerVars>>

\* StreamEnds with line 110 reading routeFinal = tries[0]
StreamEndsReportsFirst ==
  /\ RouterFrame
  /\ pc = "stream" /\ ~aborted[i]
  /\ sink' = sink \o [k \in 1..gateBuf |-> i]
  /\ gateBuf' = 0
  /\ firstChunkTimer' = [firstChunkTimer EXCEPT ![i] = Cleared]
  /\ stallTimer' = [stallTimer EXCEPT ![i] = Cleared]
  /\ routeFinal' = tries[1]
  /\ outcomes' = Append(outcomes,
                   [pos |-> i, model |-> tries[i], failed |-> FALSE, status |-> 200,
                    message |-> "", byTimer |-> abortedByTimer[i],
                    forwarded |-> Len(SelectSeq(sink', LAMBDA a : a = i)),
                    firstDeltaAt |-> firstDeltaMs[i]])
  /\ pc' = "returned"
  /\ UNCHANGED <<i, attempts, firstTokenMs, firstDeltaMs, elapsed, resStatus, gateLeft,
                 deltas, firstChunkSeen, fallbackCount, attemptErrors, reasons, slept,
                 sleepLeft, abortedByTimer, aborted>>

\* lines 99-111 and 146-149: the stream ends, the attempt succeeds, the call returns
StreamEnds ==
  /\ RouterFrame
  /\ pc = "stream" /\ ~aborted[i]
  /\ sink' = sink \o [k \in 1..gateBuf |-> i]
  /\ gateBuf' = 0
  /\ firstChunkTimer' = [firstChunkTimer EXCEPT ![i] = Cleared]
  /\ stallTimer' = [stallTimer EXCEPT ![i] = Cleared]
  /\ routeFinal' = tries[i]
  /\ outcomes' = Append(outcomes,
                   [pos |-> i, model |-> tries[i], failed |-> FALSE, status |-> 200,
                    message |-> "", byTimer |-> abortedByTimer[i],
                    forwarded |-> Len(SelectSeq(sink', LAMBDA a : a = i)),
                    firstDeltaAt |-> firstDeltaMs[i]])
  /\ pc' = "returned"
  /\ UNCHANGED <<i, attempts, firstTokenMs, firstDeltaMs, elapsed, resStatus, gateLeft,
                 deltas, firstChunkSeen, fallbackCount, attemptErrors, reasons, slept, sleepLeft,
                 abortedByTimer, aborted>>

\* the body read rejects for a reason other than the abort
StreamFails ==
  /\ RouterFrame
  /\ pc = "stream" /\ ~aborted[i]
  /\ \E m \in StreamMsgs : Catch(PlainError(m), abortedByTimer[i])
  /\ UNCHANGED <<i, attempts, routeFinal, elapsed, resStatus, timerVars, streamVars>>

\* the abort rejects the pending body read
StreamAborted ==
  /\ RouterFrame
  /\ pc = "stream" /\ aborted[i]
  /\ Catch(PlainError(AbortMessage), abortedByTimer[i])
  /\ UNCHANGED <<i, attempts, routeFinal, elapsed, resStatus, timerVars, streamVars>>

\* BackoffDone without the loop increment: the same model is tried again
BackoffDoneRetriesSame ==
  /\ RouterFrame
  /\ pc = "backoff" /\ sleepLeft = 0
  /\ pc' = "loop"
  /\ UNCHANGED <<i, attempts, routeFinal, elapsed, resStatus, catchVars, timerVars, streamVars>>

\* lines 141-142 and the loop increment: the backoff sleep is over
BackoffDone ==
  /\ RouterFrame
  /\ pc = "backoff" /\ sleepLeft = 0
  /\ i' = i + 1
  /\ pc' = "loop"
  /\ UNCHANGED <<attempts, routeFinal, elapsed, resStatus, catchVars, timerVars, streamVars>>

\* StallTimerFires with a callback that aborts nothing
StallTimerFiresAbortsNothing(k) ==
  /\ RouterFrame
  /\ stallTimer[k] = 0
  /\ stallTimer' = [stallTimer EXCEPT ![k] = Fired]
  /\ UNCHANGED <<pc, i, attempts, routeFinal, elapsed, resStatus, firstChunkTimer,
                 catchVars, streamVars, abortedByTimer, aborted>>

\* line 55: setTimeout(() => ac.abort(), fallbackOnMs) fires; ac.abort is the wrapper of line 59
StallTimerFires(k) ==
  /\ RouterFrame
  /\ stallTimer[k] = 0
  /\ stallTimer' = [stallTimer EXCEPT ![k] = Fired]
  /\ abortedByTimer' = [abortedByTimer EXCEPT ![k] = TRUE]
  /\ aborted' = [aborted EXCEPT ![k] = TRUE]
  /\ UNCHANGED <<pc, i, attempts, routeFinal, elapsed, resStatus, firstChunkTimer,
                 catchVars, streamVars>>

\* lines 86-90: the first-chunk timer fires
FirstChunkTimerFires(k) ==
  /\ RouterFrame
  /\ firstChunkTimer[k] = 0
  /\ firstChunkTimer' = [firstChunkTimer EXCEPT ![k] = Fired]
  /\ IF ~firstChunkSeen[k]
     THEN /\ abortedByTimer' = [abortedByTimer EXCEPT ![k] = TRUE]
          /\ aborted' = [aborted EXCEPT ![k] = TRUE]
     ELSE UNCHANGED <<abortedByTimer, aborted>>
  /\ UNCHANGED <<pc, i, attempts, routeFinal, elapsed, resStatus, stallTimer,
                 catchVars, streamVars>>

countDown(t) == IF t > 0 THEN t - 1 ELSE t

\* one millisecond passes; nothing that is due is pending
Tick ==
  /\ RouterFrame
  /\ \A k \in Positions : stallTimer[k] # 0 /\ firstChunkTimer[k] # 0
  /\ \/ pc \in {"fetch", "errbody", "stream"} /\ ~aborted[i] /\ elapsed < MaxElapsed
        /\ ~(pc = "stream" /\ handlerKind = "gate" /\ gateLeft = 0 /\ gateBuf > 0)
     \/ pc \in {"chaosSleep", "backoff"} /\ sleepLeft > 0
     \/ pc \in {"returned", "thrown"}
        /\ \E k \in Positions : armed(stallTimer[k]) \/ armed(firstChunkTimer[k])
  /\ stallTimer' = [k \in Positions |-> countDown(stallTimer[k])]
  /\ firstChunkTimer' = [k \in Positions |-> countDown(firstChunkTimer[k])]
  /\ sleepLeft' = countDown(sleepLeft)
  /\ gateLeft' = countDown(gateLeft)
  /\ elapsed' = IF InAttempt THEN elapsed + 1 ELSE elapsed
  /\ UNCHANGED <<pc, i, attempts, routeFinal, firstTokenMs, firstDeltaMs, resStatus,
                 gateBuf, deltas, sink, firstChunkSeen, abortedByTimer, aborted, fallbackCount,
                 attemptErrors, reasons, outcomes, slept>>

RECURSIVE rowsOf(_, _, _, _)
\* n rows of one model with time stamps ts0+1..ts0+n, latencies lat and lat+1 in turn
rowsOf(model, n, ts0, lat) ==
  IF n = 0 THEN <<>>
  ELSE Append(rowsOf(model, n - 1, ts0, lat),
              [route_final |-> model, ts |-> ts0 + n, latency_ms |-> lat + (n % 2)])

\* a ledger in which primary A has been slow for ten calls and backup B was fast once
SlowPrimary == rowsOf("A", 10, 0, 5) \o rowsOf("B", 1, 10, 1)

Users == {"u1", "u2"}
Days  == {1, 2}
NoRows == [k \in {} |-> 0]     \* table quotas_daily without rows

InitRaceIdle == rpmCallers = <<>>

NoEnv == [JWT_SECRET |-> "", hasSecret |-> FALSE, REDACT |-> "", REDACT_FIELDS |-> {}]

InitReceiptsIdle == receipts = <<>> /\ env = NoEnv

NoInfer == [pc |-> "none", user |-> "", usageProbe |-> FALSE, prompt |-> Null,
            completion |-> Null, rid |-> Null, error |-> "none",
            hdrPrompt |-> Null, hdrCompletion |-> Null,
            probePrompt |-> Null, probeCompletion |-> Null, shadow |-> NoModel]

InitInferIdle == inferRun = NoInfer

InitChainIdle == chainRun = [pc |-> "none"]

InitSseIdle == sseRun = [pc |-> "none"]

InitJsonIdle == jsonText = <<>> /\ jsonResult = [st |-> "none"] /\ InitSseIdle

InitTurnIdle == sessions = {} /\ messages = <<>> /\ turnRun = [pc |-> "none"]

InitAgentIdle == agentRun = [pc |-> "none"] /\ InitTurnIdle

\* the subsystems after the router and the quotas, none of them running
InitLaterIdle == InitJsonIdle /\ InitAgentIdle

InitExtIdle == InitRaceIdle /\ InitReceiptsIdle /\ InitInferIdle /\ InitChainIdle /\ InitLaterIdle

InitQuotaIdle ==
  /\ rpm_events = <<>>
  /\ quotas_daily = NoRows
  /\ per_user_rpm = 1
  /\ per_user_daily_tokens = 1
  /\ now = 0
  /\ today = 1
  /\ admitted = <<>>
  /\ quotaCalls = 0
  /\ lastCall = [op |-> "none"]

PlanA   == [primary |-> <<"A">>, backups |-> <<>>]
PlanAB  == [primary |-> <<"A">>, backups |-> <<"B">>]
PlanABC == [primary |-> <<"A">>, backups |-> <<"B", "C">>]

\* the calls of runWithFallback that are explored
BaseInputs ==
  [plan : {PlanA, PlanAB}, traces : {<<>>}, maxAttempts : {1, 2}, fallbackOnMs : {2},
   gate : {[kind |-> "gate", ms |-> 0], [kind |-> "gate", ms |-> 1],
           [kind |-> "direct", ms |-> 0]},
   backoffMs : {<<0>>, <<1, 0>>}, chaos : {"none"}, envOk : {TRUE},
   statuses : {Statuses}]
PrePickInputs ==
  [plan : {PlanAB, PlanABC}, traces : {SlowPrimary}, maxAttempts : {2}, fallbackOnMs : {1},
   gate : {[kind |-> "direct", ms |-> 0]},
   backoffMs : {<<0>>}, chaos : {"none", "5xx"}, envOk : {TRUE},
   statuses : {{200, 503}}]
LongInputs ==
  [plan : {PlanABC}, traces : {<<>>}, maxAttempts : {3}, fallbackOnMs : {1},
   gate : {[kind |-> "direct", ms |-> 0]},
   backoffMs : {<<1, 0>>}, chaos : {"none"}, envOk : {TRUE},
   statuses : {{200, 503}}]
ChaosInputs ==
  [plan : {PlanAB}, traces : {<<>>}, maxAttempts : {1, 2}, fallbackOnMs : {2},
   gate : {[kind |-> "gate", ms |-> 1]},
   backoffMs : {<<1, 0>>}, chaos : {"stall", "5xx"}, envOk : {TRUE},
   statuses : {{200, 503}}]
NoEnvInputs ==
  [plan : {PlanAB}, traces : {<<>>}, maxAttempts : {2}, fallbackOnMs : {2},
   gate : {[kind |-> "gate", ms |-> 0]},
   backoffMs : {<<0>>, <<>>}, chaos : {"none"}, envOk : {FALSE},
   statuses : {{200}}]
RouterInputs == BaseInputs \cup PrePickInputs \cup LongInputs \cup ChaosInputs \cup NoEnvInputs

\* the state after line 48 of runWithFallback
InitRouter(c) ==
  /\ traces = c.traces
  /\ plan = c.plan
  /\ targetP95 = 3
  /\ p95WindowN = 50
  /\ tries = startList(plan, targetP95, p95WindowN)
  /\ maxAttempts = c.maxAttempts
  /\ fallbackOnMs = c.fallbackOnMs
  /\ firstChunkGateMs = c.gate.ms
  /\ handlerKind = c.gate.kind
  /\ backoffMs = c.backoffMs
  /\ chaos = c.chaos
  /\ envOk = c.envOk
  /\ gatewayStatuses = c.statuses
  /\ pc = "loop" /\ i = 1 /\ attempts = 0 /\ fallbackCount = 0
  /\ routeFinal = NoModel /\ firstTokenMs = Null
  /\ reasons = <<>> /\ attemptErrors = <<>>
  /\ abortedByTimer = [k \in Positions |-> FALSE]
  /\ aborted = [k \in Positions |-> FALSE]
  /\ firstChunkSeen = [k \in Positions |-> FALSE]
  /\ firstDeltaMs = [k \in Positions |-> Null]
  /\ stallTimer = [k \in Positions |-> Unset]
  /\ firstChunkTimer = [k \in Positions |-> Unset]
  /\ elapsed = 0 /\ sleepLeft = 0 /\ resStatus = Null
  /\ gateLeft = 0 /\ gateBuf = 0 /\ deltas = 0
  /\ sink = <<>> /\ outcomes = <<>> /\ slept = <<>>

Init ==
  /\ \E c \in RouterInputs : InitRouter(c)
  /\ InitQuotaIdle
  /\ InitExtIdle

\* a router that is not running: for the specifications of the ledger and the quotas
InitRouterIdle ==
  /\ plan = PlanA /\ targetP95 = 1 /\ p95WindowN = 1 /\ tries = <<>>
  /\ maxAttempts = 1 /\ fallbackOnMs = 1 /\ firstChunkGateMs = 0
  /\ handlerKind = "direct" /\ backoffMs = <<>> /\ chaos = "none" /\ envOk = TRUE
  /\ gatewayStatuses = {}
  /\ pc = "idle" /\ i = 1 /\ attempts = 0 /\ fallbackCount = 0
  /\ routeFinal = NoModel /\ firstTokenMs = Null
  /\ reasons = <<>> /\ attemptErrors = <<>>
  /\ abortedByTimer = <<>> /\ aborted = <<>> /\ firstChunkSeen = <<>>
  /\ firstDeltaMs = <<>>
  /\ stallTimer = <<>> /\ firstChunkTimer = <<>>
  /\ elapsed = 0 /\ sleepLeft = 0 /\ resStatus = Null
  /\ gateLeft = 0 /\ gateBuf = 0 /\ deltas = 0
  /\ sink = <<>> /\ outcomes = <<>> /\ slept = <<>>

Next ==
  \/ StartAttempt
  \/ Exhausted
  \/ ChaosStallThrows
  \/ \E status \in Statuses : GatewayResponds(status)
  \/ GatewayRejects
  \/ FetchAborted
  \/ ErrorBodyRead
  \/ StreamDelta
  \/ GateOpens
  \/ StreamEnds
  \/ StreamFails
  \/ StreamAborted
  \/ BackoffDone
  \/ \E k \in Positions : StallTimerFires(k)
  \/ \E k \in Positions : FirstChunkTimerFires(k)
  \/ Tick

Spec == Init /\ [][Next]_vars

\* The event loop runs every continuation that is ready (the steps of the router
\* itself), time passes and timers that are due fire, and a cancelled gateway call or
\* body read rejects.  What the gateway sends (a response, a delta, the end of the
\* stream, a network error) is not assumed to happen.
Fairness ==
  /\ WF_vars(StartAttempt)
  /\ WF_vars(Exhausted)
  /\ WF_vars(ChaosStallThrows)
  /\ WF_vars(BackoffDone)
  /\ WF_vars(GateOpens)
  /\ WF_vars(Tick)
  /\ WF_vars(\E k \in Positions : StallTimerFires(k))
  /\ WF_vars(\E k \in Positions : FirstChunkTimerFires(k))
  /\ WF_vars(FetchAborted)
  /\ WF_vars(StreamAborted)
  /\ WF_vars(pc = "errbody" /\ aborted[i] /\ ErrorBodyRead)

\* the calls explored for termination: two-model ladders with and without the gate,
\* pre-pick, the chaos toggles, a missing environment
LiveInputs ==
  {c \in BaseInputs : c.plan = PlanAB /\ c.maxAttempts = 2 /\ c.gate.ms = 1
                        /\ c.backoffMs = <<1, 0>>}
    \cup PrePickInputs \cup ChaosInputs \cup NoEnvInputs

InitLive ==
  /\ \E c \in LiveInputs : InitRouter(c)
  /\ InitQuotaIdle
  /\ InitExtIdle

SpecLive == InitLive /\ [][Next]_vars /\ Fairness

----------------------------------------------------------------------------
(* Properties of runWithFallback, under Spec *)

failedOutcomes == SelectSeq(outcomes, LAMBDA o : o.failed)

\* the reason the classifier of lines 118-126 gives an attempt that ended as o
classification(o) ==
  IF o.status = 429 THEN "rate_limit"
  ELSE IF o.status # Null /\ o.status >= 500 THEN "5xx"
  ELSE IF o.status # Null THEN "http_" \o ToString(o.status)
  ELSE IF o.byTimer \/ o.message \in AbortLike THEN "stall"
  ELSE "error"

\* C1: when the first k models of the ladder fail and attempt k+1 succeeds, the
\* call returns routeFinal = ladder[k] (0-based), fallbackCount = k and k reasons,
\* the j-th being the classification of the j-th failed attempt
C1_ReturnAfterKFailures ==
  pc = "returned" =>
    LET k == Len(failedOutcomes)
    IN  /\ k < maxAttempts
        /\ Len(outcomes) = k + 1
        /\ \A j \in 1..k : outcomes[j].failed /\ outcomes[j].model = tries[j]
        /\ ~outcomes[k + 1].failed /\ outcomes[k + 1].model = tries[k + 1]
        /\ routeFinal = tries[k + 1]
        /\ fallbackCount = k
        /\ Len(reasons) = k
        /\ \A j \in 1..k : reasons[j] = classification(outcomes[j])

\* the primary stalled, the backup succeeded
C1_Witness ==
  /\ pc = "returned" /\ tries = <<"A", "B">>
  /\ routeFinal = "B" /\ fallbackCount = 1 /\ reasons = <<"stall">>

\* C2: at most min(max_attempts, length of the ladder) attempts are made, in ladder
\* order, each position at most once, and none after a success
C2_AttemptsInLadderOrder ==
  /\ attempts <= Min(maxAttempts, Len(tries))
  /\ Len(outcomes) = IF InAttempt THEN attempts - 1 ELSE attempts
  /\ InAttempt => i = attempts
  /\ \A k \in 1..Len(outcomes) :
        /\ outcomes[k].pos = k
        /\ outcomes[k].model = tries[k]
        /\ k < Len(outcomes) => outcomes[k].failed
  /\ routeFinal # NoModel =>
        /\ pc = "returned"
        /\ outcomes # <<>> /\ ~outcomes[Len(outcomes)].failed

\* the cap of two attempts ended a run over a ladder of three models
C2_Witness ==
  pc = "thrown" /\ attempts = 2 /\ maxAttempts = 2 /\ Len(tries) = 3

\* the rule of the routing contract: the first that matches of stall, rate_limit,
\* 5xx, http_<code>, error
firstMatchingRule(o) ==
  IF o.byTimer THEN "stall"
  ELSE IF o.status = 429 THEN "rate_limit"
  ELSE IF o.status # Null /\ o.status >= 500 THEN "5xx"
  ELSE IF o.status # Null THEN "http_" \o ToString(o.status)
  ELSE "error"

\* C3: every failed attempt has exactly one reason, the first that matches of:
\* cancelled by the stall timer => stall; 429 => rate_limit; >= 500 => 5xx; any
\* other non-success status => http_<code>; anything else => error
C3_FirstMatchingReason ==
  /\ Len(reasons) = Len(failedOutcomes)
  /\ \A k \in 1..Len(reasons) : reasons[k] = firstMatchingRule(failedOutcomes[k])

\* C4: no torn output: an attempt that failed has forwarded nothing to the sink,
\* and what the sink received comes from the attempt that became routeFinal
C4_NoTornOutput ==
  /\ \A k \in 1..Len(outcomes) : outcomes[k].failed => outcomes[k].forwarded = 0
  /\ pc = "returned" => \A k \in 1..Len(sink) : tries[sink[k]] = routeFinal

\* C5: an attempt whose first delta came before fallback_on_latency_ms had elapsed
\* is not cancelled by the stall timer afterwards
C5_FirstDeltaCancelsStallTimer ==
  \A k \in 1..Len(outcomes) :
    (outcomes[k].firstDeltaAt # Null /\ outcomes[k].firstDeltaAt < fallbackOnMs)
      => ~outcomes[k].byTimer

\* printFriendlyError: the exit code the driver takes for an error of a class
printFriendlyError(errName) ==
  IF errName = "ConfigError" THEN 78
  ELSE IF errName = "PolicyError" THEN 65
  ELSE IF errName = "QuotaError" THEN 75
  ELSE IF errName = "GatewayError" THEN 69
  ELSE IF errName = "RouterError" THEN 69
  ELSE 1

\* line 147: the only error runWithFallback throws
thrownError == IF pc = "thrown" THEN "RouterError" ELSE "none"

\* C24: only gateway and stream failures are recovered by the router: a missing
\* AI_GATEWAY_BASE_URL or AI_GATEWAY_API_KEY met while issuing a gateway call goes
\* to the driver as a Config error with exit code 78; it is not retried across
\* routes and not reported as router exhaustion (69)
C24_ConfigFailurePropagates ==
  ~envOk =>
    /\ attempts <= 1
    /\ pc \notin {"backoff"}
    /\ reasons = <<>>
    /\ pc = "thrown" => printFriendlyError(thrownError) = 78

\* C27: timers are released on every exit path of an attempt: once an attempt has
\* ended by success, failure or cancellation neither its stall timer nor its
\* first-chunk timer is armed, so no timer of an ended attempt fires later
C27_TimersReleasedOnExit ==
  \A k \in 1..Len(outcomes) :
     /\ ~armed(stallTimer[outcomes[k].pos])
     /\ ~armed(firstChunkTimer[outcomes[k].pos])

\* C28: after the j-th failed attempt (j >= 1) the supervisor sleeps
\* backoff[min(j-1, len(backoff)-1)] before advancing; a backoff ladder shorter than
\* the fallback count repeats its last element
C28_BackoffLadder ==
  /\ [](/\ Len(slept) = fallbackCount
        /\ \A j \in 1..Len(slept) :
              backoffMs # <<>> => slept[j] = backoffMs[Min(j, Len(backoffMs))])
  /\ [][(pc' = "backoff" /\ pc # "backoff") =>
          /\ fallbackCount' = fallbackCount + 1
          /\ sleepLeft' = slept'[Len(slept')]]_vars
  /\ [][i' # i => pc = "backoff" /\ sleepLeft = 0 /\ i' = i + 1]_vars

\* three failed attempts over a ladder of two: the third sleep repeats the last element
C28_Witness ==
  /\ Len(slept) = 3 /\ Len(backoffMs) = 2 /\ backoffMs[1] # backoffMs[2]
  /\ slept[3] = backoffMs[2] /\ pc = "thrown"

\* C36: the firstTokenMs that runWithFallback returns is measured on the attempt that
\* succeeded (from the start of that attempt to its first delta); a first delta of an
\* earlier attempt that failed later never determines the returned value (stated for
\* a winning attempt that delivered a delta)
C36_FirstTokenOfWinningAttempt ==
  (pc = "returned" /\ firstDeltaMs[i] # Null) => firstTokenMs = firstDeltaMs[i]

\* C37: every call of runWithFallback terminates: when timers fire and the gateway
\* call and the stream read honour cancellation, the call eventually returns a result
\* or raises RouterError, after at most min(max_attempts, ladder length) attempts, also
\* when a response stalls before or after its first delta
C37_CallTerminates ==
  <>(pc \in {"returned", "thrown"} /\ attempts <= Min(maxAttempts, Len(tries)))

\* the call ended although an attempt had stalled after its first delta and another
\* before any delta
C37_Witness ==
  /\ pc \in {"returned", "thrown"}
  /\ \E k \in 1..Len(outcomes) :
        outcomes[k].failed /\ outcomes[k].byTimer /\ outcomes[k].firstDeltaAt # Null
  /\ \E k \in 1..Len(outcomes) :
        outcomes[k].failed /\ outcomes[k].byTimer /\ outcomes[k].firstDeltaAt = Null

\* C22: a response that never delivers a content delta is never reported as a
\* success: the call returns routeFinal = m only if the attempt on m delivered a
\* delta, and an attempt whose stream ends or idles without any delta is a failed
\* attempt with reason "stall"
C22_NoSuccessWithoutDelta ==
  /\ pc = "returned" =>
        \E k \in 1..Len(outcomes) :
           /\ ~outcomes[k].failed /\ outcomes[k].model = routeFinal
           /\ outcomes[k].firstDeltaAt # Null
  /\ \A k \in 1..Len(outcomes) :
        (outcomes[k].status \in {200, Null} /\ outcomes[k].firstDeltaAt = Null
           /\ outcomes[k].message \in {"", AbortMessage})
          => /\ outcomes[k].failed
             /\ classification(outcomes[k]) = "stall"

\* C8: when every attempt failed the call raises RouterError and its attempts list
\* has one entry per attempt made, in attempt order, with the attempt's model and
\* message, and the status of a gateway error
C8_RouterErrorListsAttempts ==
  pc = "thrown" =>
    /\ routeFinal = NoModel
    /\ attempts = Min(maxAttempts, Len(tries))
    /\ Len(attemptErrors) = attempts
    /\ Len(outcomes) = attempts
    /\ \A k \in 1..attempts :
          /\ outcomes[k].failed
          /\ attemptErrors[k].model = tries[k]
          /\ attemptErrors[k].message = outcomes[k].message
          /\ attemptErrors[k].status = outcomes[k].status
          /\ outcomes[k].status # Null =>
                attemptErrors[k].message = "HTTP " \o ToString(attemptErrors[k].status)

\* two attempts failed, one with a gateway error and one without a status
C8_Witness ==
  /\ pc = "thrown" /\ Len(attemptErrors) = 2
  /\ \E j, k \in 1..2 : attemptErrors[j].status = 503 /\ attemptErrors[k].status = Null

----------------------------------------------------------------------------
(* Ledger queries on their own: p95LatencyFor and the ladder construction *)

MaxSmallRows == 3     \* rows of the freely built trace tables

TsValues      == {1, 2, 3}
LatencyValues == {1, 2}
TraceRows     == [route_final : {"A", "B"}, ts : TsValues, latency_ms : LatencyValues]

RECURSIVE tablesUpTo(_)
\* every table of at most n rows
tablesUpTo(n) ==
  IF n = 0 THEN {<<>>}
  ELSE LET shorter == tablesUpTo(n - 1)
       IN  shorter \cup {Append(t, r) : t \in {u \in shorter : Len(u) = n - 1}, r \in TraceRows}

\* ledgers after many calls: 9 to 11 samples of A, none to two of B, none or one of C
BigTables ==
  { rowsOf("A", c.nA, 0, c.latA) \o rowsOf("B", c.nB, 20, c.latB) \o rowsOf("C", c.nC, 30, c.latC) :
      c \in [nA : {9, 10, 11}, latA : {1, 4}, nB : {0, 1, 2}, latB : {1, 4},
             nC : {0, 1}, latC : {1, 4}] }

LadderPlans ==
  [primary : {<<"A">>, <<"A", "B">>},
   backups : {<<>>, <<"B">>, <<"B", "C">>, <<"C", "B">>, <<"C", "B", "C">>}]
WindowValues == {1, 2, 9, 10, 50}
TargetValues == {2, 4}

InitP95 ==
  /\ traces \in tablesUpTo(MaxSmallRows) \cup BigTables
  /\ InitRouterIdle
  /\ InitExtIdle
  /\ InitQuotaIdle

InitLadder ==
  /\ traces \in tablesUpTo(1) \cup BigTables
  /\ InitRouterIdle
  /\ InitExtIdle
  /\ InitQuotaIdle

\* a call of p95LatencyFor(model, n)
P95Query(model, n) ==
  /\ lastCall.op = "none"
  /\ lastCall' = [op |-> "p95LatencyFor", model |-> model, n |-> n,
                  result |-> p95LatencyFor(model, n)]
  /\ UNCHANGED <<extSt, traces, routerIn, routerSt, quotaSt>>

\* lines 28-35 of runWithFallback for a plan, a target and a window
BuildLadder(pl, target, n) ==
  /\ lastCall.op = "none"
  /\ lastCall' = [op |-> "startList", plan |-> pl, target |-> target, n |-> n,
                  result |-> startList(pl, target, n)]
  /\ UNCHANGED <<extSt, traces, routerIn, routerSt, quotaSt>>

NextP95 == \E model \in Models, n \in WindowValues : P95Query(model, n)

SpecP95 == InitP95 /\ [][NextP95]_vars

NextLadder ==
  \E pl \in LadderPlans, target \in TargetValues, n \in WindowValues :
     BuildLadder(pl, target, n)

SpecLadder == InitLadder /\ [][NextLadder]_vars

----------------------------------------------------------------------------
(* Properties of the ledger queries, under SpecP95 and SpecLadder *)

rowsFor(model) == {k \in 1..Len(traces) : traces[k].route_final = model}

\* S holds the m most recent rows among idx: no row left out is newer than one in S
mostRecent(S, idx, m) ==
  /\ Cardinality(S) = m
  /\ \A a \in S, b \in idx \ S : traces[a].ts >= traces[b].ts

\* v stands at 0-based position q of the ascending latencies of the rows S
atSortedPosition(v, S, q) ==
  /\ \E a \in S : traces[a].latency_ms = v
  /\ Cardinality({a \in S : traces[a].latency_ms < v}) <= q
  /\ Cardinality({a \in S : traces[a].latency_ms <= v}) > q

\* C7: p95LatencyFor(model, N) is null exactly when the model has no trace row;
\* otherwise it is sorted_asc[floor(0.95 * (min(N, n) - 1))] over the latencies
\* of the min(N, n) most recent rows of the model, n being the rows available
C7_P95OfRecentRows ==
  lastCall.op = "p95LatencyFor" =>
    LET idx == rowsFor(lastCall.model)
        n   == Cardinality(idx)
        m   == Min(lastCall.n, n)
    IN  /\ lastCall.result = Null <=> n = 0
        /\ n > 0 =>
              \E S \in SUBSET idx :
                 /\ mostRecent(S, idx, m)
                 /\ atSortedPosition(lastCall.result, S, (95 * (m - 1)) \div 100)

\* a window of one row: the newest latency is returned although older rows are faster
C7_Witness ==
  /\ lastCall.op = "p95LatencyFor" /\ lastCall.n = 1 /\ lastCall.result = 2
  /\ Cardinality(rowsFor(lastCall.model)) = 3
  /\ Cardinality({k \in rowsFor(lastCall.model) : traces[k].latency_ms = 1}) = 2

\* the position in backups of the backup with the lowest p95, the earliest on a tie;
\* 0 when no backup has a p95
lowestP95Position(backups, n) ==
  LET has(j)  == p95LatencyFor(backups[j], n) # Null
      best(j) == /\ has(j)
                 /\ \A h \in 1..Len(backups) :
                       has(h) => p95LatencyFor(backups[j], n) <= p95LatencyFor(backups[h], n)
  IN  IF \E j \in 1..Len(backups) : has(j)
      THEN CHOOSE j \in 1..Len(backups) : best(j) /\ \A h \in 1..(j - 1) : ~best(h)
      ELSE 0

\* C6: the ladder is [b, primary..., backups without b...], b the backup with the
\* lowest recent p95 (earliest on a tie), exactly when the primary has a recent p95,
\* at least 10 samples in the window, a p95 above the target, and some backup has
\* a p95; otherwise it is [primary..., backups...]
C6_LadderConstruction ==
  lastCall.op = "startList" =>
    LET pl      == lastCall.plan
        primary == pl.primary[1]
        p95     == p95LatencyFor(primary, lastCall.n)
        samples == Min(lastCall.n, Cardinality(rowsFor(primary)))
        j       == lowestP95Position(pl.backups, lastCall.n)
        prePick == p95 # Null /\ samples >= 10 /\ p95 > lastCall.target /\ j # 0
    IN  lastCall.result =
          IF prePick
          THEN <<pl.backups[j]>> \o pl.primary
                 \o SelectSeq(pl.backups, LAMBDA b : b # pl.backups[j])
          ELSE pl.primary \o pl.backups

\* a slow primary with ten samples; C and B are equally fast and C stands first
C6_Witness ==
  /\ lastCall.op = "startList"
  /\ lastCall.plan = [primary |-> <<"A">>, backups |-> <<"C", "B", "C">>]
  /\ Cardinality(rowsFor("A")) = 10
  /\ p95LatencyFor("B", lastCall.n) = p95LatencyFor("C", lastCall.n)
  /\ lastCall.result = <<"C", "A", "B">>

\* how often model m stands in the list s
countIn(s, m) == Cardinality({k \in 1..Len(s) : s[k] = m})

\* C34: whether or not pre-pick applies, the route ladder is a permutation of
\* primary ++ backups: same length and same multiset of models, also when backups holds
\* a repeated model or a model that is also in primary
C34_LadderIsPermutation ==
  lastCall.op = "startList" =>
    LET configured == lastCall.plan.primary \o lastCall.plan.backups
    IN  /\ Len(lastCall.result) = Len(configured)
        /\ \A m \in Models : countIn(lastCall.result, m) = countIn(configured, m)

\* C35: whenever pre-pick moves a backup to the front of the ladder, the recent p95 of
\* that backup is strictly lower than the recent p95 of the primary
C35_PrePickedBackupIsFaster ==
  (/\ lastCall.op = "startList"
   /\ lastCall.result # lastCall.plan.primary \o lastCall.plan.backups) =>
     /\ p95LatencyFor(lastCall.result[1], lastCall.n) # Null
     /\ p95LatencyFor(lastCall.result[1], lastCall.n)
          < p95LatencyFor(lastCall.plan.primary[1], lastCall.n)

----------------------------------------------------------------------------
(* Quota enforcer (quotas.ts) *)

MaxRpmCalls   == 4      \* calls of assertWithinRpm in one behaviour
MaxDailyCalls == 4      \* calls of addDailyTokens and resetDailyTokens in one behaviour
RpmWindowMs   == 60000

ClockValues == {0, 1, 59999, 60000, 60001, 120000, 120001}
TokenValues == {0 - 1, 0, 1, 2}

\* assertWithinRpm with > for >= in the comparison of line 157
assertWithinRpmOffByOne(userRef) ==
  LET windowStart == now - RpmWindowMs
      pruned == SelectSeq(rpm_events, LAMBDA r : ~(r.ts < windowStart))
      c      == Len(SelectSeq(pruned, LAMBDA r : r.user_ref = userRef /\ r.ts >= windowStart))
  IN  /\ quotaCalls < MaxRpmCalls
      /\ quotaCalls' = quotaCalls + 1
      /\ IF c > per_user_rpm
         THEN /\ rpm_events' = pruned
              /\ admitted' = admitted
              /\ lastCall' = [op |-> "assertWithinRpm", user |-> userRef, ts |-> now,
                              error |-> "rpm", limit |-> per_user_rpm]
         ELSE /\ rpm_events' = Append(pruned, [user_ref |-> userRef, ts |-> now])
              /\ admitted' = Append(admitted, [user_ref |-> userRef, ts |-> now])
              /\ lastCall' = [op |-> "assertWithinRpm", user |-> userRef, ts |-> now,
                              error |-> "none", limit |-> per_user_rpm]
      /\ UNCHANGED <<extSt, traces, routerIn, routerSt, quotas_daily, per_user_rpm,
                     per_user_daily_tokens, now, today>>

\* assertWithinRpm(userRef, rpmLimit), with rpmLimit = per_user_rpm
assertWithinRpm(userRef) ==
  LET windowStart == now - RpmWindowMs
      pruned == SelectSeq(rpm_events, LAMBDA r : ~(r.ts < windowStart))
      c      == Len(SelectSeq(pruned, LAMBDA r : r.user_ref = userRef /\ r.ts >= windowStart))
  IN  /\ quotaCalls < MaxRpmCalls
      /\ quotaCalls' = quotaCalls + 1
      /\ IF c >= per_user_rpm
         THEN /\ rpm_events' = pruned
              /\ admitted' = admitted
              /\ lastCall' = [op |-> "assertWithinRpm", user |-> userRef, ts |-> now,
                              error |-> "rpm", limit |-> per_user_rpm]
         ELSE /\ rpm_events' = Append(pruned, [user_ref |-> userRef, ts |-> now])
              /\ admitted' = Append(admitted, [user_ref |-> userRef, ts |-> now])
              /\ lastCall' = [op |-> "assertWithinRpm", user |-> userRef, ts |-> now,
                              error |-> "none", limit |-> per_user_rpm]
      /\ UNCHANGED <<extSt, traces, routerIn, routerSt, quotas_daily, per_user_rpm,
                     per_user_daily_tokens, now, today>>

\* Date.now() moves on
AdvanceClock(t) ==
  /\ t > now
  /\ now' = t
  /\ UNCHANGED <<extSt, traces, routerIn, routerSt, rpm_events, quotas_daily, per_user_rpm,
                 per_user_daily_tokens, today, admitted, quotaCalls, lastCall>>

InitRpm ==
  /\ traces = <<>>
  /\ InitRouterIdle
  /\ InitExtIdle
  /\ rpm_events = <<>>
  /\ quotas_daily = NoRows
  /\ per_user_rpm \in {1, 2}
  /\ per_user_daily_tokens = 1
  /\ now \in {0, 1}
  /\ today = 1
  /\ admitted = <<>>
  /\ quotaCalls = 0
  /\ lastCall = [op |-> "none"]

NextRpm ==
  \/ \E u \in Users : assertWithinRpm(u)
  \/ \E t \in ClockValues : AdvanceClock(t)

SpecRpm == InitRpm /\ [][NextRpm]_vars

\* the stored total of a (user, day), 0 without a row
storedTokens(table, key) == IF key \in DOMAIN table THEN table[key] ELSE 0

\* INSERT or UPDATE of the row key
setRow(key, tokens) ==
  [k \in DOMAIN quotas_daily \cup {key} |-> IF k = key THEN tokens ELSE quotas_daily[k]]

\* addDailyTokens with the stored total, not the new total, compared with the cap
addDailyTokensChecksStored(userRef, tokens) ==
  LET day       == today
      key       == <<userRef, day>>
      hasRow    == key \in DOMAIN quotas_daily
      stored    == IF hasRow THEN quotas_daily[key] ELSE 0
      newTokens == stored + tokens
  IN  /\ quotaCalls < MaxDailyCalls
      /\ quotaCalls' = quotaCalls + 1
      /\ IF stored > per_user_daily_tokens
         THEN /\ UNCHANGED quotas_daily
              /\ lastCall' = [op |-> "addDailyTokens", user |-> userRef, tokens |-> tokens,
                              day |-> day, error |-> "daily",
                              limit |-> per_user_daily_tokens]
         ELSE /\ quotas_daily' = setRow(key, IF hasRow THEN newTokens ELSE tokens)
              /\ lastCall' = [op |-> "addDailyTokens", user |-> userRef, tokens |-> tokens,
                              day |-> day, error |-> "none",
                              limit |-> per_user_daily_tokens]
      /\ UNCHANGED <<extSt, traces, routerIn, routerSt, rpm_events, per_user_rpm,
                     per_user_daily_tokens, now, today, admitted>>

\* addDailyTokens with >= for > in the comparison of line 178
addDailyTokensRefusesAtCap(userRef, tokens) ==
  LET day       == today
      key       == <<userRef, day>>
      hasRow    == key \in DOMAIN quotas_daily
      newTokens == (IF hasRow THEN quotas_daily[key] ELSE 0) + tokens
  IN  /\ quotaCalls < MaxDailyCalls
      /\ quotaCalls' = quotaCalls + 1
      /\ IF newTokens >= per_user_daily_tokens
         THEN /\ UNCHANGED quotas_daily
              /\ lastCall' = [op |-> "addDailyTokens", user |-> userRef, tokens |-> tokens,
                              day |-> day, error |-> "daily",
                              limit |-> per_user_daily_tokens]
         ELSE /\ quotas_daily' = setRow(key, IF hasRow THEN newTokens ELSE tokens)
              /\ lastCall' = [op |-> "addDailyTokens", user |-> userRef, tokens |-> tokens,
                              day |-> day, error |-> "none",
                              limit |-> per_user_daily_tokens]
      /\ UNCHANGED <<extSt, traces, routerIn, routerSt, rpm_events, per_user_rpm,
                     per_user_daily_tokens, now, today, admitted>>

\* addDailyTokens(userRef, tokens, dailyCap, tz), with dailyCap = per_user_daily_tokens
addDailyTokens(userRef, tokens) ==
  LET day       == today
      key       == <<userRef, day>>
      hasRow    == key \in DOMAIN quotas_daily
      newTokens == (IF hasRow THEN quotas_daily[key] ELSE 0) + tokens
  IN  /\ quotaCalls < MaxDailyCalls
      /\ quotaCalls' = quotaCalls + 1
      /\ IF newTokens > per_user_daily_tokens
         THEN /\ UNCHANGED quotas_daily
              /\ lastCall' = [op |-> "addDailyTokens", user |-> userRef, tokens |-> tokens,
                              day |-> day, error |-> "daily",
                              limit |-> per_user_daily_tokens]
         ELSE /\ quotas_daily' = setRow(key, IF hasRow THEN newTokens ELSE tokens)
              /\ lastCall' = [op |-> "addDailyTokens", user |-> userRef, tokens |-> tokens,
                              day |-> day, error |-> "none",
                              limit |-> per_user_daily_tokens]
      /\ UNCHANGED <<extSt, traces, routerIn, routerSt, rpm_events, per_user_rpm,
                     per_user_daily_tokens, now, today, admitted>>

\* resetDailyTokens(userRef, tz)
resetDailyTokens(userRef) ==
  LET key == <<userRef, today>>
  IN  /\ quotaCalls < MaxDailyCalls
      /\ quotaCalls' = quotaCalls + 1
      /\ quotas_daily' = IF key \notin DOMAIN quotas_daily THEN quotas_daily
                         ELSE setRow(key, 0)
      /\ lastCall' = [op |-> "resetDailyTokens", user |-> userRef, error |-> "none",
                      day |-> today]
      /\ UNCHANGED <<extSt, traces, routerIn, routerSt, rpm_events, per_user_rpm,
                     per_user_daily_tokens, now, today, admitted>>

\* local midnight passes: dayInTZ returns the next day
NextDay ==
  /\ today + 1 \in Days
  /\ today' = today + 1
  /\ UNCHANGED <<extSt, traces, routerIn, routerSt, rpm_events, quotas_daily, per_user_rpm,
                 per_user_daily_tokens, now, admitted, quotaCalls, lastCall>>

InitDaily ==
  /\ traces = <<>>
  /\ InitRouterIdle
  /\ InitExtIdle
  /\ rpm_events = <<>>
  /\ quotas_daily = NoRows
  /\ per_user_rpm = 1
  /\ per_user_daily_tokens \in {2, 3}
  /\ now = 0
  /\ today = 1
  /\ admitted = <<>>
  /\ quotaCalls = 0
  /\ lastCall = [op |-> "none"]

NextDaily ==
  \/ \E u \in Users, tokens \in TokenValues : addDailyTokens(u, tokens)
  \/ \E u \in Users : resetDailyTokens(u)
  \/ NextDay

SpecDaily == InitDaily /\ [][NextDaily]_vars

----------------------------------------------------------------------------
(* assertWithinRpm statement by statement, with concurrent callers: SpecRace *)

MaxCallers == 2      \* callers in flight at once

Callers == 1..MaxCallers

\* caller c is between two statements of assertWithinRpm
midCall(c) == rpmCallers[c].pc \in {"pruned", "counted"}

\* the scheduler with an await between the statements
canRunAnytime(c) == TRUE

\* assertWithinRpm is a synchronous function over synchronous database calls: once
\* entered it runs to its end before any other caller's code runs
canRun(c) == \A d \in Callers \ {c} : ~midCall(d)

RaceFrame == UNCHANGED <<receiptSt, inferSt, chainSt, jsonSt, agentSt, traces, routerIn, routerSt, quotas_daily, per_user_rpm,
                         per_user_daily_tokens, now, today, quotaCalls, lastCall>>

\* lines 151-153: Date.now(), windowStart, DELETE
RpmPrune(c) ==
  /\ RaceFrame
  /\ rpmCallers[c].pc = "idle" /\ canRun(c)
  /\ rpm_events' = SelectSeq(rpm_events, LAMBDA r : ~(r.ts < now - RpmWindowMs))
  /\ rpmCallers' = [rpmCallers EXCEPT ![c].pc = "pruned", ![c].ts = now]
  /\ UNCHANGED admitted

\* lines 154-156: SELECT COUNT(*)
RpmCount(c) ==
  /\ RaceFrame
  /\ rpmCallers[c].pc = "pruned" /\ canRun(c)
  /\ rpmCallers' =
       [rpmCallers EXCEPT ![c].pc = "counted",
                          ![c].c = Len(SelectSeq(rpm_events,
                                         LAMBDA r : /\ r.user_ref = rpmCallers[c].user
                                                    /\ r.ts >= rpmCallers[c].ts - RpmWindowMs))]
  /\ UNCHANGED <<rpm_events, admitted>>

\* lines 157-162: throw QuotaError("rpm") or INSERT
RpmDecide(c) ==
  /\ RaceFrame
  /\ rpmCallers[c].pc = "counted" /\ canRun(c)
  /\ IF rpmCallers[c].c >= per_user_rpm
     THEN /\ rpmCallers' = [rpmCallers EXCEPT ![c].pc = "done", ![c].error = "rpm"]
          /\ UNCHANGED <<rpm_events, admitted>>
     ELSE /\ rpmCallers' = [rpmCallers EXCEPT ![c].pc = "done", ![c].error = "none"]
          /\ rpm_events' = Append(rpm_events,
                                  [user_ref |-> rpmCallers[c].user, ts |-> rpmCallers[c].ts])
          /\ admitted' = Append(admitted,
                                [user_ref |-> rpmCallers[c].user, ts |-> rpmCallers[c].ts])

\* Date.now() moves on by a millisecond while callers are in flight
RaceClock ==
  /\ now < 60002
  /\ now' = now + 1
  /\ UNCHANGED <<extSt, traces, routerIn, routerSt, rpm_events, quotas_daily, per_user_rpm,
                 per_user_daily_tokens, today, admitted, quotaCalls, lastCall>>

RECURSIVE eventsOf(_, _, _)
\* n events of user u at time t
eventsOf(u, n, t) ==
  IF n = 0 THEN <<>> ELSE Append(eventsOf(u, n - 1, t), [user_ref |-> u, ts |-> t])

\* every user has limit-1 events that stay in the window, and perhaps one that has left it
InitRace ==
  /\ traces = <<>>
  /\ InitRouterIdle
  /\ per_user_rpm \in {1, 2, 3}
  /\ now = 60001
  /\ \E stale \in {0, 1}, t \in {2, 60001} :
        rpm_events = eventsOf("u1", stale, 0) \o eventsOf("u1", per_user_rpm - 1, t)
                       \o eventsOf("u2", per_user_rpm - 1, t)
  /\ InitReceiptsIdle /\ InitInferIdle /\ InitChainIdle /\ InitLaterIdle
  /\ rpmCallers \in [Callers -> [user : Users, pc : {"idle"}, ts : {0}, c : {0},
                                  error : {"none"}]]
  /\ quotas_daily = NoRows
  /\ per_user_daily_tokens = 1
  /\ today = 1
  /\ admitted = <<>>
  /\ quotaCalls = 0
  /\ lastCall = [op |-> "none"]

NextRace ==
  \/ \E c \in Callers : RpmPrune(c)
  \/ \E c \in Callers : RpmCount(c)
  \/ \E c \in Callers : RpmDecide(c)
  \/ RaceClock

SpecRace == InitRace /\ [][NextRace]_vars

----------------------------------------------------------------------------
(* Receipts recorder (receipts.ts): SpecReceipts *)

MaxReceipts == 3     \* receipts written in one behaviour

RECURSIVE jsonArray(_)
\* JSON.stringify of an array of strings, without its brackets
jsonArray(seq) ==
  IF seq = <<>> THEN ""
  ELSE IF Len(seq) = 1 THEN seq[1]
  ELSE seq[1] \o "," \o jsonArray(Tail(seq))

Undefined == "<undefined>"          \* a property that is absent or undefined
TopKeys   == <<"id", "ts", "policy", "route_final", "latency_ms", "reasons", "usage_prompt",
               "usage_completion", "usage_cost", "task_id", "parent_id", "agent", "input">>
MetaKeys  == <<"note", "token", "children_receipts", "cancelled_agents", "over_budget",
               "shadow">>

\* estimateCost(model, prompt, completion), kept as the expression of its arguments;
\* it is 0 when both counts are 0
estimateCost(model, prompt, completion) ==
  IF prompt = 0 /\ completion = 0 THEN "0"
  ELSE "cost(" \o model \o "," \o ToString(prompt) \o "," \o ToString(completion) \o ")"

\* the two replace() calls of redact
redact(text) ==
  IF text = "mail a@b.co" THEN "mail [redacted-email]"
  ELSE IF text = "call +1 555 123 4567" THEN "call [redacted-phone]"
  ELSE text

RECURSIVE pairsOf(_, _, _)
\* the members of obj under the given keys, in order, without the undefined ones
pairsOf(obj, keys, prefix) ==
  IF keys = <<>> THEN <<>>
  ELSE (IF obj[Head(keys)] = Undefined THEN <<>>
        ELSE <<<<prefix \o Head(keys), obj[Head(keys)]>>>>)
       \o pairsOf(obj, Tail(keys), prefix)

\* JSON.stringify of a payload: its defined members, the members of extras (spread
\* from data), then the members of meta
stringify(obj) ==
  pairsOf(obj.top, TopKeys, "")
    \o (IF obj.hasMeta THEN <<<<"extras", "{">>>> \o pairsOf(obj.extras, MetaKeys, "extras.")
        ELSE <<>>)
    \o (IF obj.hasMeta THEN <<<<"meta", "{">>>> \o pairsOf(obj.meta, MetaKeys, "meta.") ELSE <<>>)

\* crypto.createHmac("sha256", secret).update(text).digest("hex")
hmacSha256(secret, text) == <<"hmac-sha256", secret, text>>

\* maybeRedact
maybeRedact(obj) ==
  IF env.REDACT # "1" THEN obj
  ELSE [top |-> [k \in DOMAIN obj.top |->
                   IF k = "input" /\ obj.top[k] # Undefined THEN redact(obj.top[k])
                   ELSE obj.top[k]],
        hasMeta |-> obj.hasMeta,
        extras |-> obj.extras,
        meta |-> [k \in DOMAIN obj.meta |->
                    IF ~obj.hasMeta \/ obj.meta[k] = Undefined THEN obj.meta[k]
                    ELSE IF k \in env.REDACT_FIELDS THEN "[redacted]"
                    ELSE redact(obj.meta[k])]]

\* process.env.JWT_SECRET ?? "dev-secret"
secretInUse == IF env.hasSecret THEN env.JWT_SECRET ELSE "dev-secret"

sign(obj) == hmacSha256(secretInUse, stringify(obj))

\* the object { id, ts, ...data, ...(data.extras ? { meta: data.extras } : {}) }
payloadObject(id, ts, data) ==
  [top |-> [k \in {TopKeys[j] : j \in 1..Len(TopKeys)} |->
              IF k = "id" THEN ToString(id)
              ELSE IF k = "ts" THEN ToString(ts)
              ELSE data[k]],
   hasMeta |-> data.hasExtras,
   extras |-> data.extras,
   meta |-> data.extras]

ReceiptFrame == UNCHANGED <<raceSt, inferSt, chainSt, jsonSt, agentSt, traces, routerIn, routerSt, quotaSt, lastCall>>

\* the INSERT of writeReceipt for a signature and a payload
insertReceipt(id, ts, data, signature, payload) ==
  receipts' = Append(receipts,
                [id |-> id, ts |-> ts, task_id |-> data.task_id, parent_id |-> data.parent_id,
                 signature |-> signature, payload_json |-> stringify(payload)])

\* what writeReceipt does to the table; the id it returns is Len(receipts) + 1
putReceipt(data) ==
  LET id      == Len(receipts) + 1
      payload == maybeRedact(payloadObject(id, id, data))
  IN  insertReceipt(id, id, data, sign(payload), payload)

\* writeReceipt with the signature taken before the redaction
writeReceiptSignsUnredacted(data) ==
  LET id  == Len(receipts) + 1
      obj == payloadObject(id, id, data)
  IN  /\ ReceiptFrame
      /\ Len(receipts) < MaxReceipts
      /\ insertReceipt(id, id, data, sign(obj), maybeRedact(obj))
      /\ UNCHANGED env

\* writeReceipt(data): id stands for crypto.randomUUID(), ts for the clock
writeReceipt(data) ==
  /\ ReceiptFrame
  /\ Len(receipts) < MaxReceipts
  /\ putReceipt(data)
  /\ UNCHANGED env

\* process.env.ROUTEPILOT_REDACT is set or unset between two calls
SetRedact(v, fields) ==
  /\ ReceiptFrame
  /\ env.REDACT # v
  /\ env' = [env EXCEPT !.REDACT = v, !.REDACT_FIELDS = fields]
  /\ UNCHANGED receipts

NoExtras == [k \in {MetaKeys[j] : j \in 1..Len(MetaKeys)} |-> Undefined]

plainReceipt ==
  [policy |-> "p", route_final |-> "A", latency_ms |-> Undefined, reasons |-> Undefined,
   usage_prompt |-> Undefined, usage_completion |-> Undefined, usage_cost |-> Undefined,
   task_id |-> Undefined, parent_id |-> Undefined,
   agent |-> Undefined, input |-> Undefined, hasExtras |-> FALSE, extras |-> NoExtras]

\* a plain receipt, receipts of a task with and without extras, with texts that
\* the redaction rewrites and texts that it leaves alone
ReceiptInputs ==
  { plainReceipt,
    [plainReceipt EXCEPT !.input = "mail a@b.co"],
    [plainReceipt EXCEPT !.task_id = "T1", !.agent = "Writer", !.hasExtras = TRUE],
    [plainReceipt EXCEPT !.task_id = "T1", !.hasExtras = TRUE,
                         !.extras = [NoExtras EXCEPT !.note = "mail a@b.co", !.token = "ok"]],
    [plainReceipt EXCEPT !.input = "call +1 555 123 4567", !.hasExtras = TRUE,
                         !.extras = [NoExtras EXCEPT !.note = "mail a@b.co", !.token = "ok"]],
    [plainReceipt EXCEPT !.input = "ok", !.hasExtras = TRUE,
                         !.extras = [NoExtras EXCEPT !.note = "ok"]] }

InitReceipts ==
  /\ traces = <<>>
  /\ InitRouterIdle /\ InitQuotaIdle /\ InitRaceIdle /\ InitInferIdle /\ InitChainIdle /\ InitLaterIdle
  /\ receipts = <<>>
  /\ env \in [JWT_SECRET : {"k1"}, hasSecret : BOOLEAN, REDACT : {"", "1"},
               REDACT_FIELDS : {{}, {"token"}}]

NextReceipts ==
  \/ \E data \in ReceiptInputs : writeReceipt(data)
  \/ \E v \in {"", "1"}, fields \in {{}, {"token"}} : SetRedact(v, fields)

SpecReceipts == InitReceipts /\ [][NextReceipts]_vars

\* C13: after any calls of writeReceipt, redacting or not, with or without extras,
\* every row's signature is the HMAC-SHA-256, under JWT_SECRET or "dev-secret", of
\* exactly the stored payload_json
C13_SignatureOfStoredPayload ==
  \A k \in 1..Len(receipts) :
     receipts[k].signature =
       <<"hmac-sha256", IF env.hasSecret THEN env.JWT_SECRET ELSE "dev-secret",
         receipts[k].payload_json>>

\* a receipt whose stored payload was redacted in meta and in input
C13_Witness ==
  \E k \in 1..Len(receipts) :
     /\ <<"meta.note", "mail [redacted-email]">> \in
           {receipts[k].payload_json[j] : j \in 1..Len(receipts[k].payload_json)}
     /\ <<"meta.token", "[redacted]">> \in
           {receipts[k].payload_json[j] : j \in 1..Len(receipts[k].payload_json)}
     /\ <<"input", "call [redacted-phone]">> \in
           {receipts[k].payload_json[j] : j \in 1..Len(receipts[k].payload_json)}

\* the texts of the model that hold an email address or a phone-like digit sequence
PiiTexts == {"mail a@b.co", "call +1 555 123 4567"}

\* C21: with redaction enabled, the payload that writeReceipt persists and signs is
\* scrubbed recursively: every meta key of the allowlist has the value "[redacted]"
\* and no string value at any depth still holds an email address or a phone number
C21_PayloadScrubbedAtEveryDepth ==
  [][(env.REDACT = "1" /\ Len(receipts') = Len(receipts) + 1) =>
       LET json == receipts'[Len(receipts')].payload_json
       IN  \A j \in 1..Len(json) :
              /\ json[j][2] \notin PiiTexts
              /\ (\E k \in env.REDACT_FIELDS : json[j][1] = "meta." \o k)
                    => json[j][2] = "[redacted]"]_vars

----------------------------------------------------------------------------
(* The inference driver (infer.ts): SpecInfer *)

DefaultPromptTokens     == 300
DefaultCompletionTokens == 200

InferFrame == UNCHANGED <<raceSt, receiptSt, chainSt, jsonSt, agentSt, traces, routerIn, routerSt, quotaSt, lastCall>>

\* InferGate with a pre-check of the daily cap against the estimated usage added
InferGateChecksDailyCap ==
  IF storedTokens(quotas_daily, <<inferRun.user, today>>)
       + DefaultPromptTokens + DefaultCompletionTokens > per_user_daily_tokens
  THEN /\ InferFrame
       /\ inferRun.pc = "start" /\ lastCall.op = "none"
       /\ inferRun' = [inferRun EXCEPT !.pc = "failed", !.error = "QuotaError:daily"]
  ELSE /\ inferRun.pc = "start" /\ lastCall.op = "none"
       /\ assertWithinRpm(inferRun.user)

\* line 36: the RPM pre-check
InferGate ==
  /\ inferRun.pc = "start" /\ lastCall.op = "none"
  /\ assertWithinRpm(inferRun.user)

\* InferRoute with the QuotaError of the pre-check caught and ignored
InferRouteIgnoresGate ==
  /\ InferFrame
  /\ inferRun.pc = "start" /\ lastCall.op = "assertWithinRpm"
  /\ inferRun' = [inferRun EXCEPT !.pc = "routing"]

\* line 36 throws QuotaError, or lines 38-49 lead to the call of runWithFallback
InferRoute ==
  /\ InferFrame
  /\ inferRun.pc = "start" /\ lastCall.op = "assertWithinRpm"
  /\ inferRun' = IF lastCall.error = "rpm"
                 THEN [inferRun EXCEPT !.pc = "failed", !.error = "QuotaError:rpm"]
                 ELSE [inferRun EXCEPT !.pc = "routing"]

\* lines 49-65 and 147-163: runWithFallback is running
InferRouting ==
  /\ inferRun.pc \in {"routing", "shadow"}
  /\ Next

\* runWithFallback throws RouterError, which infer does not catch
InferRouterFails ==
  /\ InferFrame
  /\ inferRun.pc = "routing" /\ pc = "thrown"
  /\ inferRun' = [inferRun EXCEPT !.pc = "failed", !.error = "RouterError"]

\* lines 67-73: runWithFallback returned; usage from the headers or the defaults
InferUsage(usagePrompt, usageCompletion) ==
  /\ InferFrame
  /\ inferRun.pc = "routing" /\ pc = "returned"
  /\ inferRun' = [inferRun EXCEPT
        !.hdrPrompt = usagePrompt, !.hdrCompletion = usageCompletion,
        !.prompt = IF usagePrompt = Null THEN DefaultPromptTokens ELSE usagePrompt,
        !.completion = IF usageCompletion = Null THEN DefaultCompletionTokens
                       ELSE usageCompletion,
        !.pc = IF inferRun.usageProbe /\ usagePrompt = Null THEN "probe" ELSE "receipt"]

\* lines 73-80: probeUsageFromJSON answers (Null: no such count) or its gateway call
\* throws; line 79 takes the probe's completion only when usage.completion is null
InferProbe(throws, probePrompt, probeCompletion) ==
  /\ InferFrame
  /\ inferRun.pc = "probe"
  /\ inferRun' = IF throws
                 THEN [inferRun EXCEPT !.pc = "failed", !.error = "Error"]
                 ELSE [inferRun EXCEPT !.pc = "receipt",
                         !.probePrompt = probePrompt, !.probeCompletion = probeCompletion,
                         !.prompt = IF probePrompt = Null THEN @ ELSE probePrompt,
                         !.completion = IF @ = Null /\ probeCompletion # Null
                                        THEN probeCompletion ELSE @]

\* lines 86-100: the receipt
InferReceipt ==
  /\ inferRun.pc = "receipt" /\ receipts = <<>>
  /\ writeReceipt([plainReceipt EXCEPT
        !.route_final = routeFinal,
        !.latency_ms = ToString(elapsed),
        !.reasons = "[" \o jsonArray(reasons) \o "]",
        !.usage_prompt = ToString(inferRun.prompt),
        !.usage_completion = ToString(inferRun.completion),
        !.usage_cost = estimateCost(routeFinal, inferRun.prompt, inferRun.completion)])

\* lines 102-108: the daily tokens
InferQuota ==
  /\ inferRun.pc = "receipt" /\ receipts # <<>> /\ lastCall.op = "assertWithinRpm"
  /\ addDailyTokens(inferRun.user, inferRun.prompt + inferRun.completion)

\* InferTrace with the trace row inserted before the QuotaError is looked at
InferTraceInsertsFirst ==
  /\ inferRun.pc = "receipt" /\ lastCall.op = "addDailyTokens"
  /\ inferRun' = IF lastCall.error = "daily"
                 THEN [inferRun EXCEPT !.pc = "failed", !.error = "QuotaError:daily"]
                 ELSE [inferRun EXCEPT !.pc = "done", !.rid = receipts[Len(receipts)].id]
  /\ traces' = Append(traces,
                 [id |-> receipts[Len(receipts)].id, route_final |-> routeFinal,
                  ts |-> now, latency_ms |-> elapsed,
                  tokens |-> inferRun.prompt + inferRun.completion])
  /\ UNCHANGED <<raceSt, receiptSt, chainSt, jsonSt, agentSt, routerIn, routerSt, quotaSt, lastCall>>

\* line 103 throws QuotaError, or lines 110-124 insert the trace row
InferTrace ==
  /\ inferRun.pc = "receipt" /\ lastCall.op = "addDailyTokens"
  /\ IF lastCall.error = "daily"
     THEN /\ inferRun' = [inferRun EXCEPT !.pc = "failed", !.error = "QuotaError:daily"]
          /\ UNCHANGED traces
     ELSE /\ inferRun' = [inferRun EXCEPT !.pc = "done", !.rid = receipts[Len(receipts)].id]
          /\ traces' = Append(traces,
                         [id |-> receipts[Len(receipts)].id, route_final |-> routeFinal,
                          ts |-> now, latency_ms |-> elapsed,
                          tokens |-> inferRun.prompt + inferRun.completion])
  /\ UNCHANGED <<raceSt, receiptSt, chainSt, jsonSt, agentSt, routerIn, routerSt, quotaSt, lastCall>>

\* lines 143-163: a shadow model was asked for; runWithFallback is called again with
\* the shadow model alone, one attempt, backoff [0] and the silent handler
InferShadowStart ==
  /\ inferRun.pc = "done" /\ inferRun.shadow # NoModel
  /\ inferRun' = [inferRun EXCEPT !.pc = "shadow"]
  /\ plan' = [primary |-> <<inferRun.shadow>>, backups |-> <<>>]
  /\ tries' = startList([primary |-> <<inferRun.shadow>>, backups |-> <<>>],
                        targetP95, p95WindowN)
  /\ maxAttempts' = 1 /\ backoffMs' = <<0>> /\ handlerKind' = "direct"
  /\ pc' = "loop" /\ i' = 1 /\ attempts' = 0 /\ fallbackCount' = 0
  /\ routeFinal' = NoModel /\ firstTokenMs' = Null
  /\ reasons' = <<>> /\ attemptErrors' = <<>>
  /\ abortedByTimer' = <<FALSE>> /\ aborted' = <<FALSE>> /\ firstChunkSeen' = <<FALSE>>
  /\ firstDeltaMs' = <<Null>>
  /\ stallTimer' = <<Unset>> /\ firstChunkTimer' = <<Unset>>
  /\ elapsed' = 0 /\ sleepLeft' = 0 /\ resStatus' = Null
  /\ gateLeft' = 0 /\ gateBuf' = 0 /\ deltas' = 0
  /\ sink' = <<>> /\ outcomes' = <<>> /\ slept' = <<>>     \* the shadow stream goes nowhere
  /\ UNCHANGED <<targetP95, p95WindowN, fallbackOnMs, firstChunkGateMs, chaos, envOk,
                 gatewayStatuses, traces, quotaSt, lastCall, raceSt, receiptSt, chainSt,
                 jsonSt, agentSt>>

\* the marker receipt of lines 165-176
shadowMarker ==
  [plainReceipt EXCEPT
     !.route_final = inferRun.shadow,
     !.latency_ms = ToString(0),
     !.reasons = "[" \o jsonArray(<<"shadow">>) \o "]",
     !.usage_prompt = ToString(inferRun.prompt),
     !.usage_completion = ToString(0),
     !.usage_cost = ToString(0),
     !.hasExtras = TRUE,
     !.extras = [NoExtras EXCEPT !.shadow = "true"]]

\* InferShadowReceipt recording the shadow run in the trace table as well
InferShadowReceiptAlsoTraces ==
  /\ inferRun.pc = "shadow" /\ pc = "returned"
  /\ putReceipt(shadowMarker)
  /\ traces' = Append(traces,
                 [id |-> Len(receipts) + 1, route_final |-> inferRun.shadow,
                  ts |-> now, latency_ms |-> 0, tokens |-> inferRun.prompt])
  /\ inferRun' = [inferRun EXCEPT !.pc = "finished"]
  /\ UNCHANGED <<env, raceSt, chainSt, jsonSt, agentSt, routerIn, routerSt, quotaSt,
                 lastCall>>

\* lines 164-177: the shadow call returned; the marker receipt is written
InferShadowReceipt ==
  /\ inferRun.pc = "shadow" /\ pc = "returned"
  /\ putReceipt(shadowMarker)
  /\ inferRun' = [inferRun EXCEPT !.pc = "finished"]
  /\ UNCHANGED <<env, traces, raceSt, chainSt, jsonSt, agentSt, routerIn, routerSt, quotaSt,
                 lastCall>>

\* line 178: the shadow call threw; catch {} swallows the error
InferShadowFails ==
  /\ InferFrame
  /\ inferRun.pc = "shadow" /\ pc = "thrown"
  /\ inferRun' = [inferRun EXCEPT !.pc = "finished"]

InferRouterInputs ==
  [plan : {PlanAB}, traces : {<<>>}, maxAttempts : {1, 2}, fallbackOnMs : {1},
   gate : {[kind |-> "direct", ms |-> 0]},
   backoffMs : {<<0>>}, chaos : {"none"}, envOk : {TRUE},
   statuses : {{200, 503}}]

\* a user at the RPM limit or below it, with a stored daily total or without
InitInfer ==
  /\ \E c \in InferRouterInputs : InitRouter(c)
  /\ per_user_rpm = 1
  /\ rpm_events \in {<<>>, <<[user_ref |-> "u1", ts |-> 0]>>}
  /\ per_user_daily_tokens \in {DefaultPromptTokens + DefaultCompletionTokens, 2}
  /\ quotas_daily \in {NoRows, [k \in {<<"u1", 1>>} |-> 1]}
  /\ now = 0 /\ today = 1 /\ admitted = <<>> /\ quotaCalls = 0
  /\ lastCall = [op |-> "none"]
  /\ InitRaceIdle /\ InitReceiptsIdle /\ InitChainIdle /\ InitLaterIdle
  /\ inferRun \in [pc : {"start"}, user : {"u1"}, usageProbe : BOOLEAN, prompt : {Null},
                    completion : {Null}, rid : {Null}, error : {"none"},
                    hdrPrompt : {Null}, hdrCompletion : {Null},
                    probePrompt : {Null}, probeCompletion : {Null},
                    shadow : {NoModel, "C"}]

NextInfer ==
  \/ InferGate
  \/ InferRoute
  \/ InferRouting
  \/ InferRouterFails
  \/ \E usagePrompt \in {Null, 1}, usageCompletion \in {Null, 1} :
        InferUsage(usagePrompt, usageCompletion)
  \/ \E throws \in BOOLEAN, probePrompt \in {Null, 1}, probeCompletion \in {Null, 1} :
        InferProbe(throws, probePrompt, probeCompletion)
  \/ InferReceipt
  \/ InferQuota
  \/ InferTrace
  \/ InferShadowStart
  \/ InferShadowReceipt
  \/ InferShadowFails

SpecInfer == InitInfer /\ [][NextInfer]_vars

\* C14: in infer a failed step prevents the mutations of every later step.  When the
\* RPM gate fails there is no gateway call, no receipt, no daily-token update and no
\* trace; when the router fails there is no receipt, no daily-token update and no
\* trace, and the caller gets the typed error.  (The router of the shadow run, which
\* starts after the last step, is not a step of the main path: its error is swallowed.)
C14_FailurePreventsLaterSteps ==
  /\ (lastCall.op = "assertWithinRpm" /\ lastCall.error = "rpm") =>
        /\ inferRun.pc \in {"start", "failed"}
        /\ inferRun.pc = "failed" => inferRun.error = "QuotaError:rpm"
        /\ attempts = 0 /\ outcomes = <<>> /\ pc = "loop"
        /\ receipts = <<>> /\ quotaCalls = 1 /\ traces = <<>>
  /\ inferRun.error = "QuotaError:rpm" => lastCall.op = "assertWithinRpm" /\ lastCall.error = "rpm"
  /\ (pc = "thrown" /\ inferRun.pc \notin {"shadow", "finished"}) =>
        /\ inferRun.pc \in {"routing", "failed"}
        /\ inferRun.pc = "failed" => inferRun.error = "RouterError"
        /\ receipts = <<>> /\ quotaCalls = 1 /\ lastCall.op = "assertWithinRpm"
        /\ traces = <<>>
  /\ inferRun.error = "RouterError" => pc = "thrown"

\* the router failed on both models and infer passed the error on
C14_Witness ==
  /\ inferRun.pc = "failed" /\ inferRun.error = "RouterError"
  /\ attempts = 2 /\ Len(rpm_events) = 1

\* C15: the router succeeded and prompt + completion tokens exceed the daily cap: the
\* receipt is written, the stored daily total is unchanged, no trace row is inserted
\* and the caller gets QuotaError{daily}
C15_DailyCapAfterReceipt ==
  /\ [](inferRun.error = "QuotaError:daily" =>
          /\ pc = "returned" /\ Len(receipts) = 1 /\ receipts[1].id = 1
          /\ traces = <<>>
          /\ lastCall.op = "addDailyTokens" /\ lastCall.error = "daily"
          /\ storedTokens(quotas_daily, <<inferRun.user, today>>) + lastCall.tokens
                > per_user_daily_tokens)
  /\ [][(lastCall'.op = "addDailyTokens" /\ lastCall'.error = "daily") =>
          quotas_daily' = quotas_daily /\ traces' = traces /\ receipts' = receipts]_vars
  /\ []((lastCall.op = "addDailyTokens" /\ lastCall.error = "daily") =>
          inferRun.pc \in {"receipt", "failed"} /\ inferRun.rid = Null)

\* a call with header usage 1 + 1 against a stored total of 1 and a cap of 2
C15_Witness ==
  /\ inferRun.pc = "failed" /\ inferRun.error = "QuotaError:daily"
  /\ inferRun.prompt + inferRun.completion = 2 /\ per_user_daily_tokens = 2
  /\ Len(receipts) = 1 /\ traces = <<>>

\* C38: the daily token cap never gates the gateway call.  Whether infer invokes the
\* router depends on the RPM gate alone, not on the stored daily total; the stored
\* total is read and written by the final addDailyTokens only, so runs that differ
\* only in it make the same gateway calls and stream the same output and differ only
\* in whether addDailyTokens raises QuotaError; when it does the response was streamed
\* and the stored total stays as it was
C38_DailyCapNeverGates ==
  /\ [][(inferRun.pc = "start" /\ inferRun'.pc # "start") =>
          /\ lastCall.op = "assertWithinRpm"
          /\ inferRun'.pc = IF lastCall.error = "rpm" THEN "failed" ELSE "routing"]_vars
  /\ []((inferRun.pc = "failed" /\ inferRun.error # "QuotaError:rpm") => attempts >= 1)
  /\ []((lastCall.op = "addDailyTokens" /\ inferRun.pc \notin {"shadow", "finished"}) =>
          /\ pc = "returned" /\ routeFinal # NoModel /\ attempts >= 1
          /\ ~outcomes[Len(outcomes)].failed
          /\ outcomes[Len(outcomes)].forwarded = Len(SelectSeq(sink, LAMBDA a : a = i))
          /\ Len(receipts) = 1)
  /\ [](inferRun.error = "QuotaError:daily" =>
          lastCall.op = "addDailyTokens" /\ lastCall.error = "daily")
  /\ [][quotas_daily' # quotas_daily =>
          lastCall'.op = "addDailyTokens" /\ lastCall'.error = "none"]_vars

\* a call against a stored total of 1 and a cap of 2 streamed a delta and then failed
\* on the daily cap, the stored total still 1
C38_Witness ==
  /\ inferRun.pc = "failed" /\ inferRun.error = "QuotaError:daily"
  /\ sink # <<>> /\ routeFinal = "A"
  /\ storedTokens(quotas_daily, <<inferRun.user, today>>) = 1 /\ per_user_daily_tokens = 2

\* the count the reconciliation rule gives: header, else probe, else the default
reconciled(header, probe, default) ==
  IF header # Null THEN header ELSE IF probe # Null THEN probe ELSE default

\* the value stored in payload_json under a key
payloadValue(row, key) ==
  LET js == {j \in 1..Len(row.payload_json) : row.payload_json[j][1] = key}
  IN  IF js = {} THEN Undefined ELSE row.payload_json[CHOOSE j \in js : TRUE][2]

\* C23: the (prompt, completion) pair that infer records in the receipt, the daily
\* quota and the trace is the header-reported counts when present, otherwise the
\* counts of the usage probe when it is enabled and returns usage, otherwise (300, 200)
C23_UsageReconciliation ==
  LET p == reconciled(inferRun.hdrPrompt, inferRun.probePrompt, DefaultPromptTokens)
      c == reconciled(inferRun.hdrCompletion, inferRun.probeCompletion,
                      DefaultCompletionTokens)
  IN  /\ \A k \in 1..Len(receipts) :
            /\ payloadValue(receipts[k], "usage_prompt") = ToString(p)
            /\ payloadValue(receipts[k], "usage_completion") = ToString(c)
      /\ lastCall.op = "addDailyTokens" => lastCall.tokens = p + c
      /\ \A k \in 1..Len(traces) : traces[k].tokens = p + c

C26_WitnessFailed ==
  /\ inferRun.pc = "finished" /\ pc = "thrown" /\ Len(receipts) = 1
  /\ inferRun.error = "none"

----------------------------------------------------------------------------
(* Sub-agent chains (subagents/controller.ts) and agent turns (agents.ts): SpecChain *)

MaxTurns == 2        \* agent turns with a per-message receipt

HopNames     == {"Triage", "Retriever", "RetrieverFast", "RetrieverAccurate",
                 "Aggregator", "Writer"}
Branches     == <<"RetrieverFast", "RetrieverAccurate">>
BranchSet    == {Branches[j] : j \in 1..Len(Branches)}
EmptyRecords == "{records:[]}"
Garbage      == "no json"          \* a captured text without a JSON object
JsonError    == "Failed to extract JSON from text"      \* what safeLastJson throws

idleHop ==
  [st |-> "idle", receiptId |-> Undefined, parentId |-> Undefined, input |-> <<>>,
   output |-> Undefined, overBudget |-> FALSE, extras |-> NoExtras, error |-> "none"]

\* the envelope runSubAgent is called with; the hop runs up to its await of the router
startHop(hops, h, parentId, input, extras) ==
  [hops EXCEPT ![h] = [idleHop EXCEPT !.st = "running", !.parentId = parentId,
                                      !.input = input, !.extras = extras]]

\* triage.output?.fields?.length
hasFields(output) == output = "{fields:[id1]}"

\* what the model of a hop may answer
outputsOf(h) ==
  IF h = "Triage" THEN {"{fields:[]}", "{fields:[id1]}", Garbage}
  ELSE IF h = "Writer" THEN {"{draft}", Garbage}
  ELSE {"{records:" \o h \o "}", Garbage}

\* createStubOutput
createStubOutput(h) ==
  IF h = "Triage" THEN "{fields:[]}"
  ELSE IF h \in {"Retriever", "RetrieverFast", "RetrieverAccurate"} THEN EmptyRecords
  ELSE IF h = "Writer" THEN "{draft}"
  ELSE IF h = "Aggregator" THEN EmptyRecords
  ELSE "{}"

ChainFrame == UNCHANGED <<raceSt, inferSt, jsonSt, agentSt, routerIn, routerSt, quotaSt, lastCall, env>>

\* runSubAgent, lines 211-268: the router returned; receipt, trace, safeLastJson
HopReturns(h, out, over) ==
  LET hop  == chainRun.hop[h]
      id   == Len(receipts) + 1
      data == [plainReceipt EXCEPT
                 !.task_id = chainRun.taskId, !.parent_id = hop.parentId,
                 !.hasExtras = TRUE,
                 !.extras = [hop.extras EXCEPT
                               !.over_budget = IF over THEN "true" ELSE Undefined]]
  IN  /\ ChainFrame
      /\ chainRun.pc # "none" /\ hop.st = "running" /\ ~chainRun.dryRun
      /\ over => h = "Triage"              \* the budgets of the other hops are not explored
      /\ putReceipt(data)
      /\ traces' = Append(traces,
                     [id |-> id, route_final |-> "A", ts |-> now, latency_ms |-> 1,
                      tokens |-> DefaultPromptTokens + DefaultCompletionTokens])
      /\ chainRun' = [chainRun EXCEPT
           !.hop[h] = [hop EXCEPT !.st = IF out = Garbage THEN "failed" ELSE "done",
                                  !.receiptId = ToString(id),
                                  !.output = IF out = Garbage THEN Undefined ELSE out,
                                  !.error = IF out = Garbage THEN JsonError ELSE "none",
                                  !.overBudget = over],
           !.settled = Append(@, h)]

\* HopRouterFails with a trace row written for the failed call
HopRouterFailsLeavesTrace(h) ==
  /\ ChainFrame
  /\ chainRun.pc # "none" /\ chainRun.hop[h].st = "running" /\ ~chainRun.dryRun
  /\ chainRun' = [chainRun EXCEPT !.hop[h].st = "failed", !.hop[h].error = "RouterError",
                                  !.settled = Append(@, h)]
  /\ traces' = Append(traces,
                 [id |-> Len(receipts) + 1, route_final |-> "A", ts |-> now,
                  latency_ms |-> 1, tokens |-> 0])
  /\ UNCHANGED receipts

\* runSubAgent, lines 196-211: runWithFallback throws RouterError
HopRouterFails(h) ==
  /\ ChainFrame
  /\ chainRun.pc # "none" /\ chainRun.hop[h].st = "running" /\ ~chainRun.dryRun
  /\ chainRun' = [chainRun EXCEPT !.hop[h].st = "failed", !.hop[h].error = "RouterError",
                                  !.settled = Append(@, h)]
  /\ UNCHANGED <<receipts, traces>>

\* runSubAgent, lines 190-194: ROUTEPILOT_DRY_RUN
HopDryRun(h) ==
  /\ ChainFrame
  /\ chainRun.pc # "none" /\ chainRun.hop[h].st = "running" /\ chainRun.dryRun
  /\ chainRun' = [chainRun EXCEPT !.hop[h].st = "done",
                                  !.hop[h].output = createStubOutput(h),
                                  !.settled = Append(@, h)]
  /\ UNCHANGED <<receipts, traces>>

\* the hop a chain at pc awaits
awaited(at) ==
  IF at = "triage" THEN "Triage"
  ELSE IF at = "retrieve" THEN "Retriever"
  ELSE IF at = "aggregate" THEN "Aggregator"
  ELSE "Writer"

\* what the chain does after Triage: retrieve, fan out, or write
afterTriage(triage, parentOfNext) ==
  IF ~triage.overBudget /\ hasFields(triage.output)
  THEN IF chainRun.kind = "parallel"
       THEN [chainRun EXCEPT
              !.pc = "fanout",
              !.hop = [h \in HopNames |->
                         IF h \in BranchSet
                         THEN [idleHop EXCEPT !.st = "running", !.parentId = parentOfNext,
                                              !.input = <<"id1">>]
                         ELSE chainRun.hop[h]]]
       ELSE [chainRun EXCEPT
              !.pc = "retrieve",
              !.hop = startHop(@, "Retriever", parentOfNext, <<"id1">>, NoExtras)]
  ELSE [chainRun EXCEPT
         !.pc = "write",
         !.hop = startHop(@, "Writer", parentOfNext, <<EmptyRecords>>, NoExtras)]

\* ChainContinues with the chain's task id as the parent of every later hop
ChainContinuesParentIsTask ==
  /\ ChainFrame
  /\ chainRun.pc \in {"triage", "retrieve", "aggregate", "write"}
  /\ chainRun.hop[awaited(chainRun.pc)].st = "done"
  /\ chainRun' =
       IF chainRun.pc = "triage" THEN afterTriage(chainRun.hop["Triage"], chainRun.taskId)
       ELSE IF chainRun.pc = "write" THEN [chainRun EXCEPT !.pc = "done"]
       ELSE [chainRun EXCEPT
              !.pc = "write",
              !.hop = startHop(@, "Writer", chainRun.taskId,
                               <<chainRun.hop[awaited(chainRun.pc)].output>>, NoExtras)]
  /\ UNCHANGED <<receipts, traces>>

\* ChainContinues with the retrieval decided by the fields alone
ChainContinuesIgnoresBudget ==
  /\ ChainFrame
  /\ chainRun.pc \in {"triage", "retrieve", "aggregate", "write"}
  /\ chainRun.hop[awaited(chainRun.pc)].st = "done"
  /\ chainRun' =
       IF chainRun.pc = "triage"
       THEN afterTriage([chainRun.hop["Triage"] EXCEPT !.overBudget = FALSE],
                        chainRun.hop["Triage"].receiptId)
       ELSE IF chainRun.pc = "write" THEN [chainRun EXCEPT !.pc = "done"]
       ELSE [chainRun EXCEPT
              !.pc = "write",
              !.hop = startHop(@, "Writer",
                               IF chainRun.pc = "retrieve"
                               THEN chainRun.hop["Retriever"].receiptId
                               ELSE chainRun.hop["Triage"].receiptId,
                               <<chainRun.hop[awaited(chainRun.pc)].output>>, NoExtras)]
  /\ UNCHANGED <<receipts, traces>>

\* helpdeskChain, helpdeskHttpChain, helpdeskParallelChain: the awaited hop returned
ChainContinues ==
  /\ ChainFrame
  /\ chainRun.pc \in {"triage", "retrieve", "aggregate", "write"}
  /\ chainRun.hop[awaited(chainRun.pc)].st = "done"
  /\ chainRun' =
       IF chainRun.pc = "triage"
       THEN afterTriage(chainRun.hop["Triage"], chainRun.hop["Triage"].receiptId)
       ELSE IF chainRun.pc = "write" THEN [chainRun EXCEPT !.pc = "done"]
       ELSE [chainRun EXCEPT
              !.pc = "write",
              !.hop = startHop(@, "Writer",
                               IF chainRun.pc = "retrieve"
                               THEN chainRun.hop["Retriever"].receiptId
                               ELSE chainRun.hop["Triage"].receiptId,
                               <<chainRun.hop[awaited(chainRun.pc)].output>>, NoExtras)]
  /\ UNCHANGED <<receipts, traces>>

\* the branches in the order in which they settled
settledBranches == SelectSeq(chainRun.settled, LAMBDA h : h \in BranchSet)

\* the awaited hop, Promise.all or Promise.race rejects: the chain rejects
ChainFails ==
  /\ ChainFrame
  /\ \/ /\ chainRun.pc \in {"triage", "retrieve", "aggregate", "write"}
        /\ chainRun.hop[awaited(chainRun.pc)].st = "failed"
     \/ /\ chainRun.pc = "fanout" /\ ~chainRun.earlyStop
        /\ \E b \in BranchSet : chainRun.hop[b].st = "failed"
     \/ /\ chainRun.pc = "fanout" /\ chainRun.earlyStop
        /\ settledBranches # <<>> /\ chainRun.hop[settledBranches[1]].st = "failed"
  /\ chainRun' = [chainRun EXCEPT !.pc = "failed"]
  /\ UNCHANGED <<receipts, traces>>

\* reduceFanOut: the envelope of the aggregator
reduceFanOut(winners, cancelledAgents) ==
  [chainRun EXCEPT
     !.pc = "aggregate",
     !.hop = startHop(@, "Aggregator", chainRun.hop["Triage"].receiptId,
               [j \in 1..Len(winners) |-> chainRun.hop[winners[j]].output],
               [NoExtras EXCEPT
                  !.children_receipts =
                     "[" \o jsonArray([j \in 1..Len(winners) |->
                                         chainRun.hop[winners[j]].receiptId]) \o "]",
                  !.cancelled_agents =
                     IF cancelledAgents = <<>> THEN Undefined
                     ELSE "[" \o jsonArray(cancelledAgents) \o "]"])]

\* runFanOut without early stop, lines 450-455: Promise.all resolves
FanOutAll ==
  /\ ChainFrame
  /\ chainRun.pc = "fanout" /\ ~chainRun.earlyStop
  /\ \A b \in BranchSet : chainRun.hop[b].st = "done"
  /\ chainRun' = reduceFanOut(Branches, <<>>)
  /\ UNCHANGED <<receipts, traces>>

\* runFanOut with early stop, lines 457-460: Promise.race resolves; the other
\* controllers are aborted, and no code listens to their signals
FanOutRace ==
  /\ ChainFrame
  /\ chainRun.pc = "fanout" /\ chainRun.earlyStop
  /\ settledBranches # <<>> /\ chainRun.hop[settledBranches[1]].st = "done"
  /\ chainRun' = [chainRun EXCEPT !.pc = "settling", !.winner = settledBranches[1],
                                  !.aborted = BranchSet \ {settledBranches[1]}]
  /\ UNCHANGED <<receipts, traces>>

\* FanOutSettled with every branch passed on to the aggregator
FanOutSettledKeepsAll ==
  /\ ChainFrame
  /\ chainRun.pc = "settling"
  /\ \A b \in BranchSet : chainRun.hop[b].st \in {"done", "failed"}
  /\ chainRun' = reduceFanOut(SelectSeq(Branches, LAMBDA b : chainRun.hop[b].st = "done"),
                              SelectSeq(Branches, LAMBDA b : b # chainRun.winner))
  /\ UNCHANGED <<receipts, traces>>

\* runFanOut with early stop, lines 460-463: Promise.allSettled resolves
FanOutSettled ==
  /\ ChainFrame
  /\ chainRun.pc = "settling"
  /\ \A b \in BranchSet : chainRun.hop[b].st \in {"done", "failed"}
  /\ chainRun' = reduceFanOut(<<chainRun.winner>>,
                              SelectSeq(Branches, LAMBDA b : b # chainRun.winner))
  /\ UNCHANGED <<receipts, traces>>

\* the id of the newest receipt of a task ("" when it has none): ORDER BY ts DESC LIMIT 1
lastReceiptOf(task) ==
  LET mine == SelectSeq(receipts, LAMBDA r : r.task_id = task)
  IN  IF mine = <<>> THEN "" ELSE ToString(mine[Len(mine)].id)

\* runAgent, lines 184-225: the per-message receipt of a turn and its trace row
AgentTurnReceipt(session) ==
  /\ ChainFrame
  /\ chainRun.pc # "none" /\ chainRun.turns < MaxTurns
  /\ putReceipt([plainReceipt EXCEPT
                   !.task_id = session,
                   !.parent_id = IF lastReceiptOf(session) = "" THEN "null"
                                 ELSE lastReceiptOf(session)])
  /\ traces' = Append(traces,
                 [id |-> 0 - (chainRun.turns + 1), route_final |-> "A", ts |-> now,
                  latency_ms |-> 1,
                  tokens |-> DefaultPromptTokens + DefaultCompletionTokens])
  /\ chainRun' = [chainRun EXCEPT !.turns = @ + 1]

InitChain ==
  /\ traces = <<>>
  /\ InitRouterIdle /\ InitQuotaIdle /\ InitRaceIdle /\ InitReceiptsIdle /\ InitInferIdle
  /\ InitLaterIdle
  /\ \E kind \in {"helpdesk", "http", "parallel"}, earlyStop, dryRun \in BOOLEAN :
       /\ earlyStop => kind = "parallel"
       /\ chainRun = [kind |-> kind, earlyStop |-> earlyStop, dryRun |-> dryRun,
                      taskId |-> "T1", pc |-> "triage",
                      hop |-> startHop([h \in HopNames |-> idleHop], "Triage", Undefined,
                                       <<"text">>, NoExtras),
                      winner |-> Undefined, aborted |-> {}, settled |-> <<>>, turns |-> 0]

NextChain ==
  \/ \E h \in HopNames, over \in BOOLEAN : \E out \in outputsOf(h) :
        HopReturns(h, out, over)
  \/ \E h \in HopNames : HopRouterFails(h)
  \/ \E h \in HopNames : HopDryRun(h)
  \/ ChainContinues
  \/ ChainFails
  \/ FanOutAll
  \/ FanOutRace
  \/ FanOutSettled
  \/ AgentTurnReceipt("S1")

SpecChain == InitChain /\ [][NextChain]_vars

\* the members of the stored payload_json of a receipt
membersOf(r) == {r.payload_json[j] : j \in 1..Len(r.payload_json)}

\* the receipt with the id rid, as a set of at most one row
receiptOf(rid) == {receipts[k] : k \in {j \in 1..Len(receipts) : ToString(receipts[j].id) = rid}}

\* C16: after any run of the helpdesk chains and of agent turns with per-message
\* receipts, the receipts of every task form a forest under parent_id: every non-null
\* parent_id names a receipt of the same task that was written before its child
C16_ReceiptForest ==
  \A k \in 1..Len(receipts) :
     receipts[k].parent_id \notin {Undefined, "null"} =>
       \E j \in 1..(k - 1) :
          /\ ToString(receipts[j].id) = receipts[k].parent_id
          /\ receipts[j].task_id = receipts[k].task_id

\* a parallel chain that ran to its end, and two agent turns of one session
C16_Witness ==
  /\ chainRun.pc = "done" /\ chainRun.kind = "parallel" /\ chainRun.hop["Aggregator"].st = "done"
  /\ Len(SelectSeq(receipts, LAMBDA r : r.task_id = "T1")) = 5
  /\ \E k \in 1..Len(receipts) :
        receipts[k].task_id = "S1" /\ receipts[k].parent_id \notin {Undefined, "null"}

\* C17: in early-stop fan-out every branch other than the winner is cancelled once the
\* winner completes and writes no receipt and no trace: when runFanOut returns, the
\* only branch receipt of the fan-out is the winner's
C17_LosersWriteNothing ==
  (chainRun.pc \in {"aggregate", "write", "done"} /\ chainRun.earlyStop) =>
     \A b \in BranchSet \ {chainRun.winner} :
        /\ chainRun.hop[b].receiptId = Undefined
        /\ \A k \in 1..Len(traces) : ToString(traces[k].id) # chainRun.hop[b].receiptId

\* C18: in helpdeskParallelChain with early stop the Aggregator's receipt lists in
\* meta.cancelled_agents exactly the branches other than the winner, the Aggregator's
\* input holds the winner's output only, and the receipts of the Aggregator and of the
\* Writer have the Triage receipt as their parent
C18_EarlyStopAggregator ==
  (chainRun.pc # "none" /\ chainRun.earlyStop) =>
     LET agg    == chainRun.hop["Aggregator"]
         writer == chainRun.hop["Writer"]
         triage == chainRun.hop["Triage"]
         others == SelectSeq(Branches, LAMBDA b : b # chainRun.winner)
     IN  /\ agg.st # "idle" =>
               /\ chainRun.winner \in BranchSet /\ Len(others) = Len(Branches) - 1
               /\ agg.input = <<chainRun.hop[chainRun.winner].output>>
               /\ chainRun.hop[chainRun.winner].st = "done"
         /\ \A r \in receiptOf(agg.receiptId) :
               /\ r.parent_id = triage.receiptId /\ triage.receiptId # Undefined
               /\ <<"meta.cancelled_agents", "[" \o jsonArray(others) \o "]">> \in membersOf(r)
         /\ \A r \in receiptOf(writer.receiptId) :
               r.parent_id = triage.receiptId /\ triage.receiptId # Undefined

\* RetrieverAccurate won, the Aggregator and the Writer wrote their receipts
C18_Witness ==
  /\ chainRun.pc = "done" /\ chainRun.earlyStop /\ chainRun.winner = "RetrieverAccurate"
  /\ receiptOf(chainRun.hop["Aggregator"].receiptId) # {}
  /\ receiptOf(chainRun.hop["Writer"].receiptId) # {}
  /\ \A r \in receiptOf(chainRun.hop["Aggregator"].receiptId) :
        <<"meta.cancelled_agents", "[RetrieverFast]">> \in membersOf(r)

\* the hops a chain runs only after hop h has returned
laterHops(h) ==
  IF h = "Triage" THEN HopNames \ {"Triage"}
  ELSE IF h = "Retriever" THEN {"Writer"}
  ELSE IF h \in BranchSet THEN {"Aggregator", "Writer"}
  ELSE IF h = "Aggregator" THEN {"Writer"}
  ELSE {}

\* infer, the helpdesk chains and the agent turns over one ledger
InitTraces ==
  \/ InitInfer /\ rpm_events = <<>> /\ per_user_daily_tokens = 2
  \/ InitChain

NextTraces == NextInfer \/ NextChain

SpecTraces == InitTraces /\ [][NextTraces]_vars

\* the hops whose router call has returned normally
routedHops == {h \in HopNames : chainRun.pc # "none" /\ chainRun.hop[h].receiptId # Undefined}

\* C39: trace rows record successes only.  A trace row is inserted only after a router
\* call has succeeded, its route_final is the model that completed the stream, and for
\* infer and sub-agent hops its id is the id of the receipt already written for the same
\* call; failed attempts and failed router calls never add a trace row
C39_TracesRecordSuccesses ==
  /\ [](\A k \in 1..Len(traces) :
          traces[k].id > 0 =>
             /\ receiptOf(ToString(traces[k].id)) # {}
             /\ \A r \in receiptOf(ToString(traces[k].id)) :
                   payloadValue(r, "route_final") = traces[k].route_final)
  /\ []((inferRun.pc # "none" /\ traces # <<>>) =>
          /\ Len(traces) = 1 /\ traces[1].id = receipts[1].id
          /\ inferRun.pc \in {"done", "shadow", "finished"}
          /\ inferRun.rid = traces[1].id)
  /\ [][(inferRun.pc # "none" /\ traces' # traces) =>
          /\ pc = "returned" /\ routeFinal = tries[i] /\ ~outcomes[Len(outcomes)].failed
          /\ outcomes[Len(outcomes)].model = routeFinal
          /\ traces' = Append(traces, traces'[Len(traces')])
          /\ traces'[Len(traces')].route_final = routeFinal]_vars
  /\ [][(inferRun.pc # "none" /\ (outcomes' # outcomes \/ pc' = "thrown"
                                    \/ inferRun'.pc = "failed")) => traces' = traces]_vars
  /\ [](chainRun.pc # "none" =>
          /\ Cardinality({k \in 1..Len(traces) : traces[k].id > 0}) = Cardinality(routedHops)
          /\ \A h \in routedHops :
                \E k \in 1..Len(traces) : ToString(traces[k].id) = chainRun.hop[h].receiptId
          /\ \A h \in HopNames :
                chainRun.hop[h].error = "RouterError" =>
                   chainRun.hop[h].receiptId = Undefined)
  /\ [][(chainRun.pc # "none" /\ \E h \in HopNames :
            chainRun'.hop[h].error = "RouterError" /\ chainRun.hop[h].error = "none")
         => traces' = traces]_vars

\* infer has written the trace row of a call whose primary failed and whose backup
\* completed the stream
C39_Witness ==
  /\ inferRun.pc = "done" /\ Len(traces) = 1 /\ traces[1].route_final = "B"
  /\ Len(outcomes) = 2 /\ outcomes[1].failed /\ traces[1].id = receipts[1].id

\* a chain has a hop whose router call failed and hops with trace rows
C39_WitnessChain ==
  /\ chainRun.pc = "failed" /\ Len(traces) >= 1
  /\ \E h \in HopNames : chainRun.hop[h].error = "RouterError"

\* C30: when the captured output of a sub-agent hop holds no parseable JSON object,
\* runSubAgent fails, the enclosing chain passes the failure on without running any
\* later hop, and no receipt and no trace of the failed hop is written
C30_UnparseableHopWritesNothing ==
  chainRun.pc # "none" =>
    \A h \in HopNames :
       chainRun.hop[h].error = JsonError =>
         /\ chainRun.hop[h].st = "failed"
         /\ chainRun.pc # "done"
         /\ \A g \in laterHops(h) : chainRun.hop[g].st = "idle"
         /\ receiptOf(chainRun.hop[h].receiptId) = {}
         /\ \A k \in 1..Len(traces) : ToString(traces[k].id) # chainRun.hop[h].receiptId

\* C32: in early-stop fan-out the winner is the first branch to SUCCEED: when at least
\* one branch succeeds, runFanOut returns the result of the first successful branch,
\* also when another branch fails before any branch has succeeded
C32_EarlyStopFirstSuccessWins ==
  (/\ chainRun.pc # "none" /\ chainRun.earlyStop
   /\ \A b \in BranchSet : chainRun.hop[b].st \in {"done", "failed"}
   /\ \E b \in BranchSet : chainRun.hop[b].st = "done"
   /\ chainRun.pc \notin {"fanout", "settling"}) =>
     LET succeeded == SelectSeq(settledBranches, LAMBDA b : chainRun.hop[b].st = "done")
     IN  /\ chainRun.hop["Aggregator"].st # "idle"
         /\ chainRun.winner = succeeded[1]
         /\ chainRun.hop["Aggregator"].input = <<chainRun.hop[succeeded[1]].output>>

\* C19: in helpdeskChain the Retriever runs iff Triage is within budget and returned a
\* non-empty fields list; the Writer runs once and last, with the Retriever's receipt
\* as parent when the Retriever ran and the Triage receipt otherwise; when the
\* Retriever is skipped the Writer gets records = {records: []}
C19_HelpdeskChainOrder ==
  LET triage == chainRun.hop["Triage"]
      ret    == chainRun.hop["Retriever"]
      writer == chainRun.hop["Writer"]
      wanted == ~triage.overBudget /\ hasFields(triage.output)
      mine   == SelectSeq(receipts, LAMBDA x : x.task_id = chainRun.taskId)
  IN  (chainRun.pc # "none" /\ chainRun.kind = "helpdesk") =>
        /\ ret.st # "idle" => triage.st = "done" /\ wanted
        /\ (chainRun.pc \in {"retrieve", "write", "done"} /\ wanted) => ret.st # "idle"
        /\ writer.st # "idle" =>
              /\ \A h \in HopNames \ {"Writer"} : chainRun.hop[h].st \in {"idle", "done"}
              /\ triage.st = "done"
              /\ writer.parentId = IF ret.st = "done" THEN ret.receiptId
                                    ELSE triage.receiptId
              /\ ret.st = "idle" => writer.input = <<EmptyRecords>>
              /\ ret.st = "done" => writer.input = <<ret.output>>
        /\ \A r \in receiptOf(writer.receiptId) :
              /\ r.parent_id = writer.parentId
              /\ r = mine[Len(mine)]
        /\ chainRun.pc = "done" =>
              /\ writer.st = "done"
              /\ ~chainRun.dryRun => Len(mine) = IF ret.st = "done" THEN 3 ELSE 2

\* Triage over budget with fields: the Retriever is skipped, the Writer's receipt
\* hangs under the Triage receipt
C19_Witness ==
  /\ chainRun.kind = "helpdesk" /\ chainRun.pc = "done"
  /\ chainRun.hop["Triage"].overBudget /\ hasFields(chainRun.hop["Triage"].output)
  /\ chainRun.hop["Retriever"].st = "idle"
  /\ \A r \in receiptOf(chainRun.hop["Writer"].receiptId) :
        r.parent_id = chainRun.hop["Triage"].receiptId
  /\ receiptOf(chainRun.hop["Writer"].receiptId) # {}

----------------------------------------------------------------------------
(* One call of runSubAgent with its pre-flight (subagents/controller.ts): SpecSubAgent *)

MaxIds == 2              \* ids in the input of the called agent
HttpFetchMaxDefault == 3 \* HTTP_FETCH_MAX when unset or not a positive integer

AgentNames == HopNames \cup {"Other"}

\* lines 149-151: the number of ids fetched
maxFetch(ids, envMax) ==
  Min(ids, IF envMax # Null /\ envMax > 0 THEN envMax ELSE HttpFetchMaxDefault)

\* lines 144-147: the agent declares http_fetch, there are ids and a template with {id}
wantsFetch == agentRun.tools /\ agentRun.ids > 0 /\ agentRun.template = "with {id}"

SubAgentFrame ==
  UNCHANGED <<raceSt, inferSt, chainSt, jsonSt, routerIn, routerSt, quotaSt, lastCall, env,
              sessions, messages, turnRun>>

\* lines 134-140: the input is validated against the declared schema
SubValidate ==
  /\ SubAgentFrame
  /\ agentRun.pc = "validate"
  /\ agentRun' = IF agentRun.inputOk THEN [agentRun EXCEPT !.pc = "tools"]
                 ELSE [agentRun EXCEPT !.pc = "failed", !.error = "Input schema validation failed"]
  /\ UNCHANGED <<receipts, traces>>

\* lines 153-166: one httpFetch of the pre-fetch loop; a failure is kept as an entry
SubHttpFetch ==
  /\ SubAgentFrame
  /\ agentRun.pc = "tools" /\ wantsFetch
  /\ agentRun.fetched < maxFetch(agentRun.ids, agentRun.httpMax)
  /\ agentRun' = [agentRun EXCEPT !.fetched = @ + 1]
  /\ UNCHANGED <<receipts, traces>>

\* lines 142-187: the pre-fetch is over or was not wanted; the messages are built
SubToolsDone ==
  /\ SubAgentFrame
  /\ agentRun.pc = "tools"
  /\ wantsFetch => agentRun.fetched = maxFetch(agentRun.ids, agentRun.httpMax)
  /\ agentRun' = [agentRun EXCEPT !.pc = "preflight done"]
  /\ UNCHANGED <<receipts, traces>>

\* lines 190-194: ROUTEPILOT_DRY_RUN is "1"
SubDryRun ==
  /\ SubAgentFrame
  /\ agentRun.pc = "preflight done" /\ agentRun.dryRun
  /\ agentRun' = [agentRun EXCEPT !.pc = "returned", !.model = "dry-run",
                                  !.output = createStubOutput(agentRun.agent)]
  /\ UNCHANGED <<receipts, traces>>

\* lines 196-268: the router returned with the captured text; receipt, trace, safeLastJson
SubRouterReturns(out) ==
  LET id == Len(receipts) + 1
  IN  /\ SubAgentFrame
      /\ agentRun.pc = "preflight done" /\ ~agentRun.dryRun
      /\ out \in outputsOf(agentRun.agent)
      /\ putReceipt([plainReceipt EXCEPT !.task_id = "T1", !.hasExtras = TRUE])
      /\ traces' = Append(traces,
                     [id |-> id, route_final |-> "A", ts |-> now, latency_ms |-> 1,
                      tokens |-> DefaultPromptTokens + DefaultCompletionTokens])
      /\ agentRun' = IF out = Garbage
                     THEN [agentRun EXCEPT !.pc = "failed", !.gatewayCalls = @ + 1,
                                           !.error = JsonError]
                     ELSE [agentRun EXCEPT !.pc = "returned", !.gatewayCalls = @ + 1,
                                           !.model = "A", !.output = out,
                                           !.receiptId = ToString(id)]

\* lines 196-211: runWithFallback throws RouterError
SubRouterFails ==
  /\ SubAgentFrame
  /\ agentRun.pc = "preflight done" /\ ~agentRun.dryRun
  /\ agentRun' = [agentRun EXCEPT !.pc = "failed", !.gatewayCalls = @ + 1,
                                  !.error = "RouterError"]
  /\ UNCHANGED <<receipts, traces>>

InitSubAgent ==
  /\ traces = <<>>
  /\ InitRouterIdle /\ InitQuotaIdle /\ InitRaceIdle /\ InitReceiptsIdle /\ InitInferIdle
  /\ InitChainIdle /\ InitJsonIdle /\ InitTurnIdle
  /\ agentRun \in [pc : {"validate"}, agent : AgentNames, tools : BOOLEAN, ids : 0..MaxIds,
                    template : {"with {id}", "without"}, httpMax : {Null, 1},
                    inputOk : BOOLEAN, dryRun : BOOLEAN,
                    fetched : {0}, gatewayCalls : {0}, model : {NoModel},
                    output : {Undefined}, receiptId : {Undefined}, error : {"none"}]

NextSubAgent ==
  \/ SubValidate
  \/ SubHttpFetch
  \/ SubToolsDone
  \/ SubDryRun
  \/ \E out \in {"{fields:[]}", "{fields:[id1]}", "{draft}", Garbage}
               \cup {"{records:" \o a \o "}" : a \in AgentNames} : SubRouterReturns(out)
  \/ SubRouterFails

SpecSubAgent == InitSubAgent /\ [][NextSubAgent]_vars

\* C25: with the dry-run flag set runSubAgent makes no network call (no gateway call,
\* no http_fetch pre-fetch), writes no receipt and no trace and returns the stub of
\* the agent's name family; the input is still validated against its schema
C25_DryRunTouchesNothing ==
  (agentRun.pc # "none" /\ agentRun.dryRun) =>
    /\ agentRun.fetched = 0 /\ agentRun.gatewayCalls = 0
    /\ receipts = <<>> /\ traces = <<>>
    /\ agentRun.pc = "returned" =>
          /\ agentRun.inputOk
          /\ agentRun.receiptId = Undefined
          /\ agentRun.output = createStubOutput(agentRun.agent)
    /\ ~agentRun.inputOk => agentRun.pc \in {"validate", "failed"}

----------------------------------------------------------------------------
(* The aggregator reduce (subagents/controller.ts reduceFanOut): SpecReduce *)

MaxRecords == 2          \* records in one branch output or one aggregator answer

RecordIds == {1, 2}      \* a record is known by its id

RECURSIVE recordLists(_)
\* the record lists of at most n records
recordLists(n) ==
  IF n = 0 THEN {<<>>}
  ELSE recordLists(n - 1) \cup
       {Append(r, id) : r \in {q \in recordLists(n - 1) : Len(q) = n - 1}, id \in RecordIds}

\* lines 476-485 with runSubAgent, lines 196-268: the aggregator agent is called with the
\* branch outputs; what its model answers is parsed and returned as the output
ReduceReturns(records) ==
  LET id == Len(receipts) + 1
  IN  /\ SubAgentFrame
      /\ agentRun.pc = "reduce" /\ agentRun.rounds < 2
      /\ putReceipt([plainReceipt EXCEPT !.task_id = "T1", !.hasExtras = TRUE])
      /\ traces' = Append(traces,
                     [id |-> id, route_final |-> "A", ts |-> now, latency_ms |-> 1,
                      tokens |-> DefaultPromptTokens + DefaultCompletionTokens])
      /\ agentRun' = [agentRun EXCEPT !.rounds = @ + 1,
                                      !.prev = agentRun.output,
                                      !.output = records,
                                      !.branches = <<records>>]

InitReduce ==
  /\ traces = <<>>
  /\ InitRouterIdle /\ InitQuotaIdle /\ InitRaceIdle /\ InitReceiptsIdle /\ InitInferIdle
  /\ InitChainIdle /\ InitJsonIdle /\ InitTurnIdle
  /\ \E a \in recordLists(MaxRecords), b \in recordLists(MaxRecords) :
        agentRun = [pc |-> "reduce", first |-> <<a, b>>, branches |-> <<a, b>>,
                    rounds |-> 0, prev |-> <<>>, output |-> <<>>]

NextReduce == \E records \in recordLists(MaxRecords) : ReduceReturns(records)

SpecReduce == InitReduce /\ [][NextReduce]_vars

\* the ids of the records of some branch outputs
idsOf(branches) ==
  UNION {{branches[j][k] : k \in 1..Len(branches[j])} : j \in 1..Len(branches)}

\* the records of a set of ids, one per id, by ascending id
sortedById(ids) ==
  CHOOSE q \in [1..Cardinality(ids) -> ids] :
     \A a, b \in 1..Cardinality(ids) : a < b => q[a] < q[b]

\* C29: the aggregator reduce is deterministic and idempotent: its output over the
\* branch outputs X is the union of the branches' records, deduplicated by id and
\* sorted by id, and reduce(reduce(X)) = reduce(X)
C29_ReduceDedupSortedIdempotent ==
  agentRun.pc = "reduce" =>
    /\ agentRun.rounds >= 1 => agentRun.output = sortedById(idsOf(agentRun.first))
    /\ agentRun.rounds = 2 => agentRun.output = agentRun.prev

----------------------------------------------------------------------------
(* JSON extraction (util/hash.ts safeLastJson): SpecJson *)

MaxTextLen == 5      \* length of a captured text, in tokens

\* a text is a sequence of tokens: a brace, "1" (a scalar, or a member inside an
\* object) or "x" (anything JSON.parse rejects)
JsonTokens == {"{", "}", "1", "x"}

RECURSIVE textsUpTo(_)
textsUpTo(n) ==
  IF n = 0 THEN {<<>>}
  ELSE textsUpTo(n - 1) \cup
       {Append(t, c) : t \in {u \in textsUpTo(n - 1) : Len(u) = n - 1}, c \in JsonTokens}

\* opening minus closing braces among the first k tokens
depthAt(t, k) ==
  Cardinality({j \in 1..k : t[j] = "{"}) - Cardinality({j \in 1..k : t[j] = "}"})

\* JSON.parse(t) succeeds: a scalar, or an object of members and objects
parses(t) ==
  /\ t # <<>>
  /\ \A k \in 1..Len(t) : t[k] # "x"
  /\ IF Len(t) = 1 THEN t[1] = "1"
     ELSE /\ t[1] = "{" /\ t[Len(t)] = "}"
          /\ \A k \in 1..(Len(t) - 1) : depthAt(t, k) >= 1
          /\ depthAt(t, Len(t)) = 0

\* JSON.parse(t): the value is written as the text that denotes it
parsed(t) == [st |-> "value", value |-> t]

RECURSIVE scanFrom(_, _, _, _)
\* the loop of safeLastJson from index k on, then the parse of the whole text
scanFrom(text, k, start, depth) ==
  IF k > Len(text)
  THEN IF parses(text) THEN parsed(text) ELSE [st |-> "error", value |-> <<>>]
  ELSE IF text[k] = "{"
       THEN scanFrom(text, k + 1, IF depth = 0 THEN k ELSE start, depth + 1)
  ELSE IF text[k] = "}"
       THEN IF depth - 1 = 0 /\ start # Null /\ parses(SubSeq(text, start, k))
            THEN parsed(SubSeq(text, start, k))
            ELSE scanFrom(text, k + 1, start, depth - 1)
  ELSE scanFrom(text, k + 1, start, depth)

safeLastJson(text) == scanFrom(text, 1, Null, 0)

\* the call of safeLastJson on the captured text
Extract ==
  /\ jsonResult.st = "none"
  /\ jsonResult' = safeLastJson(jsonText)
  /\ UNCHANGED <<jsonText, sseRun, agentSt, raceSt, receiptSt, inferSt, chainSt, traces, routerIn, routerSt,
                 quotaSt, lastCall>>

InitJson ==
  /\ traces = <<>>
  /\ InitRouterIdle /\ InitQuotaIdle /\ InitRaceIdle /\ InitReceiptsIdle /\ InitInferIdle
  /\ InitChainIdle /\ InitAgentIdle
  /\ jsonText \in textsUpTo(MaxTextLen)
  /\ jsonResult = [st |-> "none"]
  /\ InitSseIdle

NextJson == Extract

SpecJson == InitJson /\ [][NextJson]_vars

\* the top-level balanced {...} spans of a text, as pairs of indices: the span opens
\* at brace depth 0 of the text and closes where the depth is 0 again
topLevelSpans(t) ==
  {p \in (1..Len(t)) \X (1..Len(t)) :
     /\ p[1] < p[2]
     /\ t[p[1]] = "{" /\ t[p[2]] = "}"
     /\ depthAt(t, p[1] - 1) = 0
     /\ \A k \in p[1]..(p[2] - 1) : depthAt(t, k) >= 1
     /\ depthAt(t, p[2]) = 0}

\* C20: for any captured text safeLastJson returns the parse of the last top-level
\* balanced {...} span that parses as JSON, and fails only when no span parses
C20_LastParsingSpan ==
  jsonResult.st # "none" =>
    LET good == {p \in topLevelSpans(jsonText) : parses(SubSeq(jsonText, p[1], p[2]))}
    IN  IF good = {}
        THEN TRUE
        ELSE \E p \in good :
               /\ \A q \in good : q[2] <= p[2]
               /\ jsonResult = parsed(SubSeq(jsonText, p[1], p[2]))

----------------------------------------------------------------------------
(* Properties of the quota enforcer, under SpecRpm and SpecDaily *)

\* the rows of seq of user u with ts >= t - 60000
inWindow(seq, u, t) == SelectSeq(seq, LAMBDA r : r.user_ref = u /\ r.ts >= t - 60000)

\* C9: with limit L and a clock that does not go back, every user has at most L
\* stored rpm events with ts >= t - 60000 at every instant t; a call is refused
\* with QuotaError "rpm" exactly when L calls of the user were let through in the
\* 60 s before it, so from an empty window L calls pass and the next one is refused
C9_RpmWindowBound ==
  /\ \A u \in Users : Len(inWindow(rpm_events, u, now)) <= per_user_rpm
  /\ lastCall.op = "assertWithinRpm" =>
        LET passed == Len(inWindow(admitted, lastCall.user, lastCall.ts))
        IN  /\ lastCall.error \in {"none", "rpm"}
            /\ lastCall.error = "rpm"  => passed >= per_user_rpm
            /\ lastCall.error = "none" => passed <= per_user_rpm
            /\ lastCall.limit = per_user_rpm

\* two calls of one user passed and the third, 59999 ms after the first, is refused
C9_Witness ==
  /\ per_user_rpm = 2 /\ lastCall.op = "assertWithinRpm" /\ lastCall.error = "rpm"
  /\ lastCall.ts = 59999
  /\ admitted = <<[user_ref |-> lastCall.user, ts |-> 0], [user_ref |-> lastCall.user, ts |-> 0]>>

\* C10: after any calls of addDailyTokens with cap C, passing or failing, the
\* stored total of every (user, day) is at most C
C10_DailyTotalWithinCap ==
  \A key \in DOMAIN quotas_daily : quotas_daily[key] <= per_user_daily_tokens

\* a row stands at the cap and the call that would pass it was refused
C10_Witness ==
  /\ lastCall.op = "addDailyTokens" /\ lastCall.error = "daily"
  /\ <<lastCall.user, lastCall.day>> \in DOMAIN quotas_daily
  /\ quotas_daily[<<lastCall.user, lastCall.day>>] = per_user_daily_tokens

\* C11: a call of addDailyTokens with existing + tokens > cap raises
\* QuotaError{daily, limit: cap, when: day} and leaves quotas_daily as it was; with
\* existing + tokens <= cap it sets the row of (user, day) to existing + tokens and
\* changes no other row
C11_AddDailyTokensStep ==
  [][(quotaCalls' = quotaCalls + 1 /\ lastCall'.op = "addDailyTokens") =>
       LET key      == <<lastCall'.user, today>>
           existing == storedTokens(quotas_daily, key)
       IN  IF existing + lastCall'.tokens > per_user_daily_tokens
           THEN /\ lastCall'.error = "daily"
                /\ lastCall'.limit = per_user_daily_tokens
                /\ lastCall'.day = today
                /\ quotas_daily' = quotas_daily
           ELSE /\ lastCall'.error = "none"
                /\ DOMAIN quotas_daily' = DOMAIN quotas_daily \cup {key}
                /\ quotas_daily'[key] = existing + lastCall'.tokens
                /\ \A k \in DOMAIN quotas_daily : k # key => quotas_daily'[k] = quotas_daily[k]
  ]_vars

\* a call brought a row exactly to the cap while another user's row stood
C11_Witness ==
  /\ lastCall.op = "addDailyTokens" /\ lastCall.error = "none" /\ lastCall.tokens = 1
  /\ storedTokens(quotas_daily, <<lastCall.user, lastCall.day>>) = per_user_daily_tokens
  /\ \E u \in Users : u # lastCall.user /\ <<u, lastCall.day>> \in DOMAIN quotas_daily

\* the callers of user u that were let through
passedCallers(u) ==
  {c \in Callers : rpmCallers[c].user = u /\ rpmCallers[c].pc = "done"
                    /\ rpmCallers[c].error = "none"}

JsonModes    == {Undefined, "true", "false"}      \* z.boolean().optional()
Temperatures == {Undefined, "0.2"}
ParamLadder  == <<"A", "B">>                      \* the ladder of the hop's policy

\* router line 72: { ...(gen || {}), ...perModel }; a key of perModel wins when present
merged(gen, perModel) ==
  [k \in {"temperature", "json_mode"} |->
     IF perModel[k] # Undefined THEN perModel[k] ELSE gen[k]]

\* router lines 73-77: the request body; absent members are Undefined
chatParams(model, m) ==
  [model |-> model,
   temperature |-> m.temperature,
   response_format |-> IF m.json_mode = "true" THEN "json_object" ELSE Undefined]

ParamsFrame ==
  UNCHANGED <<raceSt, receiptSt, inferSt, chainSt, jsonSt, routerIn, routerSt, quotaSt,
              lastCall, env, traces, sessions, messages, turnRun>>

\* controller.ts line 207: runSubAgent hands { ...(policy.gen || {}), json_mode: true }
\* and policy.routing.params to runWithFallback
SubPassGen ==
  /\ ParamsFrame
  /\ agentRun.pc = "params"
  /\ agentRun' = [agentRun EXCEPT !.pc = "routing",
                                  !.gen = [agentRun.policyGen EXCEPT !.json_mode = "true"]]

\* router lines 49-79: the attempt on the next model of the ladder issues its request
\* (the attempt fails, or it is the last one of the ladder)
BuildCall ==
  /\ ParamsFrame
  /\ agentRun.pc = "routing"
  /\ agentRun.i <= Len(ParamLadder)
  /\ LET model == ParamLadder[agentRun.i]
     IN  agentRun' = [agentRun EXCEPT
                        !.i = @ + 1,
                        !.calls = Append(@, chatParams(model,
                                     merged(agentRun.gen, agentRun.routeParams[model])))]

InitParams ==
  /\ traces = <<>>
  /\ InitRouterIdle /\ InitQuotaIdle /\ InitRaceIdle /\ InitReceiptsIdle /\ InitInferIdle
  /\ InitChainIdle /\ InitJsonIdle /\ InitTurnIdle
  /\ agentRun \in [pc : {"params"},
                    policyGen : [temperature : Temperatures, json_mode : JsonModes],
                    gen : {Undefined},
                    routeParams : [{"A", "B"} -> [temperature : Temperatures,
                                                  json_mode : JsonModes]],
                    i : {1}, calls : {<<>>}]

NextParams ==
  \/ SubPassGen
  \/ BuildCall

SpecParams == InitParams /\ [][NextParams]_vars

\* C31: every gateway request issued for a sub-agent hop, on every model of the
\* ladder, carries response_format = {type: "json_object"}, whatever the policy's gen
\* and routing.params say for that model
C31_JsonModeForced ==
  agentRun.pc = "routing" =>
    \A k \in 1..Len(agentRun.calls) : agentRun.calls[k].response_format = "json_object"

(***************************************************************************)
(* Stream demultiplexer (util/stream.ts streamSSEToStdout,                 *)
(* streamSSEToBufferAndStdout): SpecSse                                    *)
(***************************************************************************)
MaxFrames == 3     \* lines in the body of a response

NL == "\n"
DoneLine == "data: [DONE]"
SseLines == {DoneLine, "data: {content:a}", "data: {text:t}", "data: {content:}",
             "data: {bad", ": ping"}

\* line 65: /^data:\s*(.*)$/, the payload of a data line, Undefined without a match
dataOf(line) ==
  CASE line = DoneLine             -> "[DONE]"
    [] line = "data: {content:a}"  -> "{content:a}"
    [] line = "data: {text:t}"     -> "{text:t}"
    [] line = "data: {content:}"   -> "{content:}"
    [] line = "data: {bad"         -> "{bad"
    [] OTHER                       -> Undefined

\* line 73: JSON.parse(data) returns
isJson(data) == data \in {"{content:a}", "{text:t}", "{content:}"}

\* line 73: what JSON.parse(data) returns: choices[0].delta.content and choices[0].text
jsonObj(data) ==
  CASE data = "{content:a}" -> [content |-> "a", text |-> Undefined]
    [] data = "{text:t}"    -> [content |-> Undefined, text |-> "t"]
    [] data = "{content:}"  -> [content |-> "", text |-> Undefined]

\* contentDelta without the choices[0].text alternative
contentDeltaNoText(obj) ==
  IF obj.content # Undefined THEN obj.content ELSE ""

\* line 74: obj?.choices?.[0]?.delta?.content ?? obj?.choices?.[0]?.text ?? ""
contentDelta(obj) ==
  IF obj.content # Undefined THEN obj.content
  ELSE IF obj.text # Undefined THEN obj.text
  ELSE ""

\* lines 64-82 (109-125): the lines of one event from line k on; st is the local state
\* [gotFirst, firstCalls, firstAt, stdout, captured, doneFlag]
RECURSIVE handleLines(_, _, _)
handleLines(lines, k, st) ==
  IF k > Len(lines) THEN st
  ELSE LET data == dataOf(lines[k])
       IN  IF data = Undefined THEN handleLines(lines, k + 1, st)
           ELSE IF data = "[DONE]" THEN [st EXCEPT !.doneFlag = TRUE]
           ELSE IF ~isJson(data) THEN handleLines(lines, k + 1, st)
           ELSE LET delta == contentDelta(jsonObj(data))
                IN  IF delta = "" THEN handleLines(lines, k + 1, st)
                    ELSE handleLines(lines, k + 1,
                           [st EXCEPT
                              !.gotFirst = TRUE,
                              !.firstCalls = IF st.gotFirst THEN @ ELSE @ + 1,
                              !.firstAt = IF st.gotFirst THEN @ ELSE Len(st.stdout),
                              !.captured = IF st.variant = "buffer" THEN @ \o delta ELSE @,
                              !.stdout = Append(@, delta)])

\* buffer.indexOf("\n\n"): the first index of two newlines in a row, 0 when there is none
indexOfBlank(buffer) ==
  LET hits == {j \in 1..(Len(buffer) - 1) : buffer[j] = NL /\ buffer[j + 1] = NL}
  IN  IF hits = {} THEN 0 ELSE CHOOSE j \in hits : \A h \in hits : j <= h

\* lines 60-84 (105-127): every full event of the buffer is cut off and handled until
\* the buffer holds no blank line or [DONE] was seen
RECURSIVE drain(_, _)
drain(buffer, st) ==
  LET idx == indexOfBlank(buffer)
  IN  IF idx = 0 THEN [st EXCEPT !.buffer = buffer]
      ELSE LET event == SubSeq(buffer, 1, idx - 1)
               rest  == SubSeq(buffer, idx + 2, Len(buffer))
               lines == SelectSeq(event, LAMBDA x : x # NL)
               st2   == handleLines(lines, 1, st)
           IN  IF st2.doneFlag THEN [st2 EXCEPT !.buffer = rest]
               ELSE drain(rest, st2)

SseFrame ==
  UNCHANGED <<raceSt, receiptSt, inferSt, chainSt, agentSt, jsonText, jsonResult, routerIn,
              routerSt, quotaSt, lastCall, traces>>

\* lines 86-87 and 130: streamSSEToStdout returns nothing, the buffered variant captured
returnOf(st) == IF st.variant = "buffer" THEN st.captured ELSE Undefined

\* lines 55-85 (101-128): reader.read() resolves with the next n units of the body
SseRead(n) ==
  /\ SseFrame
  /\ sseRun.pc = "reading"
  /\ n >= 1 /\ n <= Len(sseRun.body)
  /\ LET st == drain(sseRun.buffer \o SubSeq(sseRun.body, 1, n), sseRun)
     IN  sseRun' = [st EXCEPT !.body = SubSeq(sseRun.body, n + 1, Len(sseRun.body)),
                              !.pc = IF st.doneFlag THEN "returned" ELSE "reading",
                              !.result = IF st.doneFlag THEN returnOf(st) ELSE @]

\* line 56 (102): reader.read() resolves with done, the function returns
SseEnd ==
  /\ SseFrame
  /\ sseRun.pc = "reading" /\ sseRun.body = <<>>
  /\ sseRun' = [sseRun EXCEPT !.pc = "returned", !.result = returnOf(sseRun)]

\* the sequences of at most n lines
RECURSIVE lineSeqs(_)
lineSeqs(n) ==
  IF n = 0 THEN {<<>>}
  ELSE lineSeqs(n - 1) \cup {Append(t, l) : t \in {u \in lineSeqs(n - 1) : Len(u) = n - 1},
                                            l \in SseLines}

\* the body of a response: every line ends with a newline, an event with a blank line;
\* blank[k] says that line k is the last line of its event
wireOf(lines, blank) ==
  LET unit(k) == IF blank[k] THEN <<lines[k], NL, NL>> ELSE <<lines[k], NL>>
      F[k \in 0..Len(lines)] == IF k = 0 THEN <<>> ELSE F[k - 1] \o unit(k)
  IN  F[Len(lines)]

InitSse ==
  /\ traces = <<>>
  /\ InitRouterIdle /\ InitQuotaIdle /\ InitRaceIdle /\ InitReceiptsIdle /\ InitInferIdle
  /\ InitChainIdle /\ InitAgentIdle
  /\ jsonText = <<>> /\ jsonResult = [st |-> "none"]
  /\ \E lines \in lineSeqs(MaxFrames) \ {<<>>} :
       \E blank \in [1..Len(lines) -> BOOLEAN], variant \in {"stdout", "buffer"} :
          sseRun = [pc |-> "reading", variant |-> variant, lines |-> lines, blank |-> blank,
                    body |-> wireOf(lines, blank), buffer |-> <<>>,
                    gotFirst |-> FALSE, firstCalls |-> 0, firstAt |-> 0,
                    stdout |-> <<>>, captured |-> "", doneFlag |-> FALSE,
                    result |-> "pending"]

\* a read delivers one unit of the body, or all that is left of it
NextSse ==
  \/ SseRead(1)
  \/ SseRead(Len(sseRun.body))
  \/ SseEnd

SpecSse == InitSse /\ [][NextSse]_vars

\* the lines of the events of the body that are complete (ended by a blank line)
completeLines ==
  LET ends == {k \in 1..Len(sseRun.lines) : sseRun.blank[k]}
  IN  IF ends = {} THEN <<>>
      ELSE SubSeq(sseRun.lines, 1, CHOOSE k \in ends : \A e \in ends : e <= k)

\* the lines that precede the first [DONE]
beforeDone ==
  LET dones == {k \in 1..Len(completeLines) : completeLines[k] = DoneLine}
  IN  IF dones = {} THEN completeLines
      ELSE SubSeq(completeLines, 1, (CHOOSE k \in dones : \A d \in dones : k <= d) - 1)

\* the content delta a line carries, "" when it is no well-formed data frame with one
frameDelta(line) ==
  IF line = "data: {content:a}" THEN "a" ELSE IF line = "data: {text:t}" THEN "t" ELSE ""

\* the non-empty content deltas of the well-formed data frames before [DONE], in order
expectedDeltas ==
  LET fr == SelectSeq(beforeDone, LAMBDA l : frameDelta(l) # "")
  IN  [k \in 1..Len(fr) |-> frameDelta(fr[k])]

concatOf(ds) ==
  LET F[k \in 0..Len(ds)] == IF k = 0 THEN "" ELSE F[k - 1] \o ds[k]
  IN  F[Len(ds)]

\* C33: for any sequence of SSE events the demultiplexer emits exactly the non-empty
\* content deltas of the well-formed data frames that precede the first [DONE], in
\* order; malformed frames are skipped and nothing is emitted after [DONE]; the
\* first-delta callback is invoked exactly once, at the first emitted delta, and never
\* when nothing is emitted; the buffered variant returns the concatenation of the
\* emitted deltas.  (An SSE event is a block of lines ended by a blank line.)
C33_DemuxEmitsDeltasBeforeDone ==
  sseRun.pc # "none" =>
    /\ Len(sseRun.stdout) <= Len(expectedDeltas)
    /\ sseRun.stdout = SubSeq(expectedDeltas, 1, Len(sseRun.stdout))
    /\ sseRun.firstCalls = IF sseRun.stdout = <<>> THEN 0 ELSE 1
    /\ sseRun.firstAt = 0
    /\ sseRun.pc = "returned" =>
         /\ sseRun.stdout = expectedDeltas
         /\ sseRun.variant = "buffer" => sseRun.result = concatOf(expectedDeltas)

\* the buffered variant returned "a": the body went on after [DONE] with another delta
C33_Witness ==
  /\ sseRun.pc = "returned" /\ sseRun.variant = "buffer" /\ sseRun.doneFlag
  /\ sseRun.lines = <<"data: {content:a}", DoneLine, "data: {text:t}">>
  /\ sseRun.result = "a" /\ sseRun.firstCalls = 1

\* both deltas of a body with a malformed frame between them were emitted in order
C33_WitnessSkips ==
  /\ sseRun.pc = "returned" /\ ~sseRun.doneFlag
  /\ sseRun.lines = <<"data: {text:t}", "data: {bad", "data: {content:a}">>
  /\ sseRun.stdout = <<"t", "a">>

----------------------------------------------------------------------------
(* The agent session driver (agents.ts): runAgent and the session store *)

\* the session argument of a call: absent, a stored session, a session never stored
SessionArgs == {Undefined, "S1", "S9"}

\* createSession, lines 60-66: uuid() is an id no row has yet
newSessionId == "N" \o ToString(Cardinality(sessions) + 1)

\* listMessages, lines 72-80: the messages of a session, oldest first
listMessages(sessionId) == SelectSeq(messages, LAMBDA m : m.session_id = sessionId)

\* addMessage, lines 81-85, as the table it leaves
addMessage(sessionId, role) ==
  Append(messages, [session_id |-> sessionId, role |-> role, turn |-> turnRun.calls])

TurnFrame ==
  UNCHANGED <<raceSt, receiptSt, inferSt, chainSt, jsonSt, agentRun, routerIn, routerSt,
              quotaSt>>

\* lines 113-119: a call of runAgent starts; a session that is named is looked up, and
\* one is created when none is named
TurnStart(session) ==
  /\ TurnFrame
  /\ turnRun.pc \in {"none", "done", "failed"} /\ turnRun.calls < MaxTurns
  /\ lastCall' = [op |-> "none"]
  /\ messages' = messages /\ traces' = traces
  /\ IF session # Undefined
     THEN /\ sessions' = sessions
          /\ turnRun' = IF session \in sessions
                        THEN [turnRun EXCEPT !.pc = "gate", !.calls = @ + 1,
                                !.session = session, !.sessionId = session,
                                !.error = "none",
                                !.before = [sessions |-> sessions, messages |-> messages]]
                        ELSE [turnRun EXCEPT !.pc = "failed", !.calls = @ + 1,
                                !.session = session, !.sessionId = session,
                                !.error = "Error: Unknown session",
                                !.before = [sessions |-> sessions, messages |-> messages]]
     ELSE /\ sessions' = sessions \cup {newSessionId}
          /\ turnRun' = [turnRun EXCEPT !.pc = "gate", !.calls = @ + 1,
                           !.session = session, !.sessionId = newSessionId,
                           !.error = "none",
                           !.before = [sessions |-> sessions, messages |-> messages]]

\* line 122: the RPM check
TurnGate ==
  /\ turnRun.pc = "gate" /\ lastCall.op = "none"
  /\ assertWithinRpm(turnRun.user)

\* line 122 throws QuotaError, or lines 125-137 read the history and store the user
\* message
TurnUserMessage ==
  /\ TurnFrame
  /\ turnRun.pc = "gate" /\ lastCall.op = "assertWithinRpm"
  /\ UNCHANGED <<sessions, traces, lastCall>>
  /\ IF lastCall.error = "rpm"
     THEN /\ turnRun' = [turnRun EXCEPT !.pc = "failed", !.error = "QuotaError:rpm"]
          /\ messages' = messages
     ELSE /\ turnRun' = [turnRun EXCEPT !.pc = "routing",
                           !.history = listMessages(turnRun.sessionId)]
          /\ messages' = addMessage(turnRun.sessionId, "user")

\* lines 145-161: runWithFallback returns and the assistant message is stored
TurnRouterReturns ==
  /\ TurnFrame
  /\ turnRun.pc = "routing"
  /\ UNCHANGED <<sessions, traces, lastCall>>
  /\ messages' = addMessage(turnRun.sessionId, "assistant")
  /\ turnRun' = [turnRun EXCEPT !.pc = "answered"]

\* lines 145-159: runWithFallback throws RouterError, which runAgent does not catch
TurnRouterFails ==
  /\ TurnFrame
  /\ turnRun.pc = "routing"
  /\ UNCHANGED <<sessions, messages, traces, lastCall>>
  /\ turnRun' = [turnRun EXCEPT !.pc = "failed", !.error = "RouterError"]

\* lines 163-179: the daily tokens, with the default usage
TurnQuota ==
  /\ turnRun.pc = "answered" /\ lastCall.op = "assertWithinRpm"
  /\ addDailyTokens(turnRun.user, DefaultPromptTokens + DefaultCompletionTokens)

\* line 174 throws QuotaError, or lines 227-235 insert the trace row of the turn
TurnTrace ==
  /\ TurnFrame
  /\ turnRun.pc = "answered" /\ lastCall.op = "addDailyTokens"
  /\ UNCHANGED <<sessions, messages, lastCall>>
  /\ IF lastCall.error = "daily"
     THEN /\ turnRun' = [turnRun EXCEPT !.pc = "failed", !.error = "QuotaError:daily"]
          /\ traces' = traces
     ELSE /\ turnRun' = [turnRun EXCEPT !.pc = "done"]
          /\ traces' = Append(traces,
                         [id |-> 0 - turnRun.calls, route_final |-> "A", ts |-> now,
                          latency_ms |-> 1,
                          tokens |-> DefaultPromptTokens + DefaultCompletionTokens])

\* a stored turn of session S1: its user message and its assistant message
StoredTurn == <<[session_id |-> "S1", role |-> "user", turn |-> 0],
                [session_id |-> "S1", role |-> "assistant", turn |-> 0]>>

InitAgent ==
  /\ traces = <<>>
  /\ InitRouterIdle /\ InitRaceIdle /\ InitReceiptsIdle /\ InitInferIdle
  /\ InitChainIdle /\ InitJsonIdle
  /\ agentRun = [pc |-> "none"]
  /\ rpm_events = <<>>
  /\ quotas_daily = NoRows
  /\ per_user_rpm \in {1, 2}
  /\ per_user_daily_tokens \in {1, 2 * (DefaultPromptTokens + DefaultCompletionTokens)}
  /\ now = 0
  /\ today = 1
  /\ admitted = <<>>
  /\ quotaCalls = 0
  /\ lastCall = [op |-> "none"]
  /\ sessions = {"S1"}
  /\ messages \in {<<>>, StoredTurn}
  /\ turnRun = [pc |-> "none", calls |-> 0, user |-> "u1", session |-> Undefined,
                sessionId |-> Undefined, history |-> <<>>, error |-> "none",
                before |-> [sessions |-> {"S1"}, messages |-> <<>>]]

NextAgent ==
  \/ \E session \in SessionArgs : TurnStart(session)
  \/ TurnGate
  \/ TurnUserMessage
  \/ TurnRouterReturns
  \/ TurnRouterFails
  \/ TurnQuota
  \/ TurnTrace

SpecAgent == InitAgent /\ [][NextAgent]_vars

\* no call of runAgent is on its way
turnAtRest == turnRun.pc \in {"none", "done", "failed"}

\* in the history of a session every user message is followed by the assistant
\* message of the same turn
historyPaired(h) ==
  \A k \in 1..Len(h) :
     h[k].role = "user" =>
        /\ k < Len(h)
        /\ h[k + 1].role = "assistant"
        /\ h[k + 1].turn = h[k].turn

\* C40: a runAgent turn that fails at the RPM gate or by router exhaustion leaves the
\* session store as it was before the turn (no new session row, no new message), so
\* that in every stored history each user message is followed by the assistant
\* message of the same turn
C40_FailedTurnLeavesStoreUntouched ==
  /\ (turnRun.pc = "failed" /\ turnRun.error \in {"QuotaError:rpm", "RouterError"}) =>
        /\ sessions = turnRun.before.sessions
        /\ messages = turnRun.before.messages
  /\ turnAtRest => \A sid \in sessions : historyPaired(listMessages(sid))

====
